---- MODULE Spec2Model ----
(***************************************************************************)
(* Era detection (clustering package) and the concurrent tag fetch         *)
(* pipeline (tags package) of go-spotify-era-organizer.                    *)
(*                                                                         *)
(* Time is modelled as integer ticks (time.Time / time.Duration are int64  *)
(* nanosecond counts; no arithmetic here comes near the width).            *)
(***************************************************************************)
EXTENDS Integers, Sequences, FiniteSets, TLC

VARIABLES
    \* ---- clustering package ----
    tracks,     \* the caller's input slice
    cfg,        \* the configuration passed to the call
    fn,         \* which entry point was called: "none", "DetectEras", "DetectMoodEras"
    pc,         \* "input" before the call, "returned" after it, "panicked" on a run-time panic
    sorted,     \* DetectEras: the local sorted copy
    clusters,   \* the local list of runs (DetectEras) or k-means clusters (DetectMoodEras)
    eras,       \* returned eras
    outliers,   \* returned outliers
    vocabulary, \* DetectMoodEras / buildTagVocabulary: the tag vocabulary that was built
    kmeans,     \* DetectMoodEras: whether km.Partition was called and what it returned
    centroid,   \* extractTopTags: the centroid argument
    topTags,    \* extractTopTags: the returned names
    \* ---- SplitLargeEras ----
    maxTracks,  \* the maxTracks argument
    result,     \* the returned list of eras
    \* ---- tags.Service.FetchTagsForTracks ----
    option,     \* what NewService was given: no WithConcurrency option, or WithConcurrency(n)
    batch,      \* the input tracks of the batch
    workCh,     \* the buffered, closed work channel (indices still queued)
    results,    \* the pre-sized result slice
    worker,     \* per worker goroutine: its position and the work item it holds
    ctxDone,    \* TRUE once the context is cancelled
    fetched,    \* per input index: what GetTags returned for it, called = FALSE if it was never called
    writes,     \* the slots of results in the order in which they were written
    ret,        \* the calling goroutine: its position and the returned (results, err)
    \* ---- tags.CachedTagFetcher.GetTagsForTracks ----
    db,         \* the track_tags table: per track ID its rows (TagName, TagCount, FetchedAt)
    now,        \* the wall clock (time.Now): in days for the tag cache, in half hours for the sync
    call,       \* the last GetTagsForTracks call: what it read, fetched, wrote and returned
    \* ---- sync.Service.SyncLikedSongs ----
    user,       \* the user's row: LastSyncAt
    sync,       \* per SyncLikedSongs call: its position, what it read and what it returned
    \* ---- lastfm.Client.doRequest ----
    req         \* the doRequest call: its position, attempts, waits and what it returned

cvars == <<tracks, cfg, fn, pc, sorted, clusters, eras, outliers, vocabulary, kmeans,
           centroid, topTags>>
svars == <<maxTracks, result>>
fvars == <<option, batch, workCh, results, worker, ctxDone, fetched, writes, ret>>
kvars == <<db, now, call>>
yvars == <<user, sync>>
rvars == <<req>>
vars  == <<tracks, cfg, fn, pc, sorted, clusters, eras, outliers, vocabulary, kmeans,
           centroid, topTags,
           maxTracks, result,
           batch, workCh, results, worker, ctxDone, fetched, writes, ret,
           db, now, call, user, sync, req>>

----------------------------------------------------------------------------
(* Bounds *)

MaxLen == 3
\* largest length of an input track slice

MaxTime == 2
\* AddedAt ranges over 0..MaxTime; gap thresholds over 0..MaxTime

MaxEraLen == 4
\* largest number of tracks of an era handed to SplitLargeEras

MaxBatch == 3
\* largest number of tracks of a FetchTagsForTracks batch

MaxConcurrency == 2
\* largest Service.concurrency given with WithConcurrency

MaxDefaultBatch == 1
\* largest batch handed to a service of the default concurrency

MaxCalls == 2
\* largest number of SyncLikedSongs calls made for the user

MaxTicks == 2
\* the clock advances at most this many times

----------------------------------------------------------------------------
(* Generic helpers *)

RECURSIVE Concat(_)
Concat(ss) == IF Len(ss) = 0 THEN <<>> ELSE Head(ss) \o Concat(Tail(ss))

RECURSIVE SumLen(_)
SumLen(ss) == IF Len(ss) = 0 THEN 0 ELSE Len(Head(ss)) + SumLen(Tail(ss))

Range(s) == {s[i] : i \in 1..Len(s)}

----------------------------------------------------------------------------
(* clustering: data types *)

\* lastfm.Tag values a track may carry
TagChoices == { <<>>, <<[Name |-> "Rock", Count |-> 1]>> }

Times == 0..MaxTime

\* Track{ID, AddedAt, Tags}; the ID is the position in the input slice
TrackInputs ==
    UNION { { [i \in 1..n |-> [ID |-> i, AddedAt |-> f[i][1], Tags |-> f[i][2]]]
              : f \in [1..n -> Times \X TagChoices] } : n \in 0..MaxLen }

ZeroCfg == [GapThreshold |-> 0, MinClusterSize |-> 0, NumClusters |-> 0, MaxTags |-> 0]

Era(ts, start, end, si, st) ==
    [Tracks |-> ts, StartDate |-> start, EndDate |-> end, SplitIndex |-> si, SplitTotal |-> st]

----------------------------------------------------------------------------
(* slices.SortFunc by AddedAt: for fewer than 12 elements the standard     *)
(* library runs insertion sort, which is what is modelled here.            *)

\* faulty variant: no sorting at all
SortByAddedAtNoSort(s) == s

\* one insertion step: x moves left while it compares less than its left neighbour
InsertByAddedAt(s, x) ==
    LET stop == CHOOSE j \in 0..Len(s) :
                   /\ (j = 0 \/ ~(x.AddedAt < s[j].AddedAt))
                   /\ \A k \in (j+1)..Len(s) : x.AddedAt < s[k].AddedAt
    IN  SubSeq(s, 1, stop) \o <<x>> \o SubSeq(s, stop + 1, Len(s))

RECURSIVE SortByAddedAt(_)
SortByAddedAt(s) ==
    IF Len(s) <= 1 THEN s
    ELSE InsertByAddedAt(SortByAddedAt(SubSeq(s, 1, Len(s) - 1)), s[Len(s)])

----------------------------------------------------------------------------
(* DetectEras *)

\* faulty variant: strict comparison at the gap boundary
IsNewRunStrict(gap, gapThreshold) == gap > gapThreshold

\* the test `gap >= cfg.GapThreshold`
IsNewRun(gap, gapThreshold) == gap >= gapThreshold

\* the gap loop: i is the 1-based position of the next element of sorted
RECURSIVE GapLoop(_, _, _, _, _)
GapLoop(srt, i, cl, current, gapThreshold) ==
    IF i > Len(srt) THEN Append(cl, current)
    ELSE LET gap == srt[i].AddedAt - srt[i-1].AddedAt
         IN  IF IsNewRun(gap, gapThreshold)
             THEN GapLoop(srt, i + 1, Append(cl, current), <<srt[i]>>, gapThreshold)
             ELSE GapLoop(srt, i + 1, cl, Append(current, srt[i]), gapThreshold)

BuildClusters(srt, gapThreshold) == GapLoop(srt, 2, <<>>, <<srt[1]>>, gapThreshold)

\* faulty variant: a small run is cut down to its first member instead of being demoted whole
KeepsClusterAlways(n, minClusterSize) == n >= 1

\* the test `len(cluster) >= cfg.MinClusterSize`
KeepsCluster(n, minClusterSize) == n >= minClusterSize

\* faulty variant: an undersized run is dropped instead of added to the outliers
DemoteDrop(outl, cluster) == outl

\* `outliers = append(outliers, cluster...)`
Demote(outl, cluster) == outl \o cluster

\* the filter loop of DetectEras over clusters[i..]
RECURSIVE FilterClusters(_, _, _, _, _)
FilterClusters(cl, i, es, outl, minClusterSize) ==
    IF i > Len(cl) THEN [eras |-> es, outliers |-> outl]
    ELSE LET cluster == cl[i]
         IN  IF KeepsCluster(Len(cluster), minClusterSize)
             THEN FilterClusters(cl, i + 1,
                      Append(es, Era(cluster, cluster[1].AddedAt,
                                     cluster[Len(cluster)].AddedAt, 0, 0)),
                      outl, minClusterSize)
             ELSE FilterClusters(cl, i + 1, es, Demote(outl, cluster), minClusterSize)

\* faulty variant: `sorted` shares the caller's backing array, so the sort reorders the input
CallerSliceSortedInPlace(ts, srt) == srt

\* the caller's slice after `sorted := make(...); copy(sorted, tracks)` and the
\* sort of `sorted`: the copy has its own backing array
CallerSliceAfterSort(ts, srt) == ts

\* `input` is the caller's slice as the call leaves it
DetectEras(ts, c) ==
    IF Len(ts) = 0
    THEN [input |-> ts, sorted |-> <<>>, clusters |-> <<>>, eras |-> <<>>, outliers |-> <<>>]
    ELSE LET srt == SortByAddedAt(ts)
             cl  == BuildClusters(srt, c.GapThreshold)
             r   == FilterClusters(cl, 1, <<>>, <<>>, c.MinClusterSize)
         IN  [input |-> CallerSliceAfterSort(ts, srt), sorted |-> srt, clusters |-> cl,
              eras |-> r.eras, outliers |-> r.outliers]

----------------------------------------------------------------------------
(* SplitLargeEras / splitEra *)

\* slices.SortFunc(gaps, largest duration first) (insertion sort below 12 elements)
InsertByDurationDesc(s, x) ==
    LET stop == CHOOSE j \in 0..Len(s) :
                   /\ (j = 0 \/ ~(x.duration > s[j].duration))
                   /\ \A k \in (j+1)..Len(s) : x.duration > s[k].duration
    IN  SubSeq(s, 1, stop) \o <<x>> \o SubSeq(s, stop + 1, Len(s))

\* faulty variant: the gaps are left in position order
SortGapsByDurationDescNoSort(s) == s

RECURSIVE SortGapsByDurationDesc(_)
SortGapsByDurationDesc(s) ==
    IF Len(s) <= 1 THEN s
    ELSE InsertByDurationDesc(SortGapsByDurationDesc(SubSeq(s, 1, Len(s) - 1)), s[Len(s)])

\* slices.Sort(splitIndices): the indices are distinct
SortIndices(s) ==
    LET set == Range(s)
    IN  [i \in 1..Len(s) |->
            CHOOSE x \in set : Cardinality({y \in set : y < x}) = i - 1]

\* gaps[i-1] = gapInfo{index: i, duration: tracks[i].AddedAt - tracks[i-1].AddedAt},
\* index being the 0-based position of the track after the gap
Gaps(ts) ==
    [g \in 1..(Len(ts) - 1) |-> [index |-> g, duration |-> ts[g+1].AddedAt - ts[g].AddedAt]]

\* the sub-era loop: i counts the sub-eras built, start is the 0-based slice start
RECURSIVE SubEraLoop(_, _, _, _, _, _)
SubEraLoop(ts, splitIndices, numSubEras, i, start, subEras) ==
    IF i >= numSubEras THEN subEras
    ELSE LET end       == IF i < numSubEras - 1 THEN splitIndices[i + 1] ELSE Len(ts)
             subTracks == SubSeq(ts, start + 1, end)
         IN  SubEraLoop(ts, splitIndices, numSubEras, i + 1, end,
                 Append(subEras,
                        Era(subTracks, subTracks[1].AddedAt,
                            subTracks[Len(subTracks)].AddedAt, i + 1, numSubEras)))

\* faulty variant: the division rounds down
NumSubErasFloor(numTracks, maxTr) == numTracks \div maxTr

\* numSubEras: ceiling division
NumSubEras(numTracks, maxTr) == (numTracks + maxTr - 1) \div maxTr

splitEra(era, maxTr) ==
    LET ts         == era.Tracks
        numTracks  == Len(ts)
        numSubEras == NumSubEras(numTracks, maxTr)
        numSplits  == numSubEras - 1
    IN  IF numSplits = 0 THEN <<era>>
        ELSE LET gaps         == SortGapsByDurationDesc(Gaps(ts))
                 splitIndices == SortIndices([i \in 1..numSplits |-> gaps[i].index])
             IN  SubEraLoop(ts, splitIndices, numSubEras, 0, 0, <<>>)

\* faulty variant: a small era is put in front of what was built so far
KeepEraInFront(res, era) == <<era>> \o res

\* result = append(result, era) for an era that is small enough
KeepEra(res, era) == Append(res, era)

RECURSIVE SplitLoop(_, _, _, _)
SplitLoop(es, i, maxTr, res) ==
    IF i > Len(es) THEN res
    ELSE IF Len(es[i].Tracks) <= maxTr
         THEN SplitLoop(es, i + 1, maxTr, KeepEra(res, es[i]))
         ELSE SplitLoop(es, i + 1, maxTr, res \o splitEra(es[i], maxTr))

SplitLargeEras(es, maxTr) ==
    IF maxTr <= 0 THEN es ELSE SplitLoop(es, 1, maxTr, <<>>)

----------------------------------------------------------------------------
(* DetectMoodEras *)

DefaultNumClusters == 3
DefaultMaxTags == 50

\* faulty variant: the names are counted as they are spelled
ToLowerAsSpelled(name) == name

\* strings.ToLower on the tag names that occur in the model
ToLower(name) ==
    CASE name = "Rock" -> "rock"
      [] name = "ROCK" -> "rock"
      [] name = "Pop"  -> "pop"
      [] OTHER         -> name

Min(a, b) == IF a < b THEN a ELSE b

\* the counts map of buildTagVocabulary: lower-cased name -> summed Count
TagCounts(vt) ==
    LET names == UNION { {ToLower(vt[i].Tags[j].Name) : j \in 1..Len(vt[i].Tags)}
                         : i \in 1..Len(vt) }
        RECURSIVE SumTags(_, _, _)
        SumTags(name, tags, j) ==
            IF j > Len(tags) THEN 0
            ELSE (IF ToLower(tags[j].Name) = name THEN tags[j].Count ELSE 0)
                 + SumTags(name, tags, j + 1)
        RECURSIVE SumTracks(_, _)
        SumTracks(name, i) ==
            IF i > Len(vt) THEN 0
            ELSE SumTags(name, vt[i].Tags, 1) + SumTracks(name, i + 1)
    IN  [name \in names |-> SumTracks(name, 1)]

\* sort.Slice by count descending (insertion sort below 12 elements)
InsertByCountDesc(s, x) ==
    LET stop == CHOOSE j \in 0..Len(s) :
                   /\ (j = 0 \/ ~(x.count > s[j].count))
                   /\ \A k \in (j+1)..Len(s) : x.count > s[k].count
    IN  SubSeq(s, 1, stop) \o <<x>> \o SubSeq(s, stop + 1, Len(s))

RECURSIVE SortByCountDesc(_)
SortByCountDesc(s) ==
    IF Len(s) <= 1 THEN s
    ELSE InsertByCountDesc(SortByCountDesc(SubSeq(s, 1, Len(s) - 1)), s[Len(s)])

\* every order in which ranging over the counts map may deliver its entries
MapOrders(counts) ==
    LET names == DOMAIN counts
        n     == Cardinality(names)
    IN  { [i \in 1..n |-> [name |-> p[i], count |-> counts[p[i]]]]
          : p \in { q \in [1..n -> names] : \A a, b \in 1..n : a # b => q[a] # q[b] } }

\* buildTagVocabulary: the set of vocabularies it may return (one per map iteration order)
buildTagVocabulary(vt, maxTags) ==
    LET counts == TagCounts(vt)
    IN  { LET tagCounts == SortByCountDesc(order)
              n         == Min(maxTags, Len(tagCounts))
          IN  [i \in 1..n |-> tagCounts[i].name]
          : order \in MapOrders(counts) }

\* the outcomes of km.Partition(obs, k) over n observations (third-party k-means):
\* an error, or every observation assigned to one of the k clusters, any of
\* which may be left empty
KMeansOutcomes(n, k) ==
    {[err |-> TRUE, assign |-> <<>>]} \cup {[err |-> FALSE, assign |-> f] : f \in [1..n -> 1..k]}

\* km.Partition was not called
NoKMeans == [attempted |-> FALSE, err |-> FALSE, assign |-> <<>>]

\* cluster.Observations of cluster ci, as the tracks they wrap, in dataset order
ClusterTracks(vt, assign, ci) ==
    LET RECURSIVE Pick(_)
        Pick(i) == IF i > Len(vt) THEN <<>>
                   ELSE (IF assign[i] = ci THEN <<vt[i]>> ELSE <<>>) \o Pick(i + 1)
    IN  Pick(1)

\* faulty variant: eras left in cluster order
SortErasByStartDescNoSort(es) == es

\* slices.SortFunc(eras, b.StartDate.Compare(a.StartDate))
InsertByStartDesc(s, x) ==
    LET stop == CHOOSE j \in 0..Len(s) :
                   /\ (j = 0 \/ ~(s[j].StartDate < x.StartDate))
                   /\ \A k \in (j+1)..Len(s) : s[k].StartDate < x.StartDate
    IN  SubSeq(s, 1, stop) \o <<x>> \o SubSeq(s, stop + 1, Len(s))

RECURSIVE SortErasByStartDesc(_)
SortErasByStartDesc(es) ==
    IF Len(es) <= 1 THEN es
    ELSE InsertByStartDesc(SortErasByStartDesc(SubSeq(es, 1, Len(es) - 1)), es[Len(es)])

\* faulty variant: the untagged tracks are forgotten on the all-outlier paths
AllOutliersTaggedOnly(validTracks, noTags) == validTracks

\* `outliers` of the three all-outlier return paths: valid tracks, then noTags
AllOutliers(validTracks, noTags) == validTracks \o noTags

\* faulty variant: clustering is tried however few tagged tracks there are
TooFewTaggedNever(numValid, numClusters) == FALSE

\* len(validTracks) < cfg.NumClusters
TooFewTagged(numValid, numClusters) == numValid < numClusters

\* faulty variant: after a failed partition only the tagged tracks are returned
OutliersOnPartitionErrorValidOnly(validTracks, noTags) == validTracks

\* `outliers` built after km.Partition returned an error
OutliersOnPartitionError(validTracks, noTags) == AllOutliers(validTracks, noTags)

\* the loop over the k-means result, clusters cl[i..]; panics when it reads
\* clusterTracks[0] of an empty cluster
RECURSIVE MoodLoop(_, _, _, _, _)
MoodLoop(cl, i, es, outl, minClusterSize) ==
    IF i > Len(cl) THEN [panicked |-> FALSE, eras |-> es, outliers |-> outl]
    ELSE LET clusterTracks == cl[i]
         IN  IF ~KeepsCluster(Len(clusterTracks), minClusterSize)
             THEN MoodLoop(cl, i + 1, es, Demote(outl, clusterTracks), minClusterSize)
             ELSE IF Len(clusterTracks) = 0
             THEN [panicked |-> TRUE, eras |-> es, outliers |-> outl]
             ELSE LET st == SortByAddedAt(clusterTracks)
                  IN  MoodLoop(cl, i + 1,
                               Append(es, Era(st, st[1].AddedAt, st[Len(st)].AddedAt, 0, 0)),
                               outl, minClusterSize)

\* DetectMoodEras with the vocabulary and the k-means outcome it met.
\* MoodEra.Name and MoodEra.TopTags are not modelled. The input is only read
\* through the pointers of validTracks; clusterTracks holds copies (*to.track),
\* and it is clusterTracks that is sorted.
DetectMoodEras(ts, c, voc, km) ==
    LET numClusters == IF c.NumClusters <= 0 THEN DefaultNumClusters ELSE c.NumClusters
        validTracks == SelectSeq(ts, LAMBDA t : Len(t.Tags) > 0)
        noTags      == SelectSeq(ts, LAMBDA t : Len(t.Tags) = 0)
        none(v, k) == [input |-> ts, panicked |-> FALSE, vocabulary |-> v, kmeans |-> k,
                         clusters |-> <<>>, eras |-> <<>>,
                         outliers |-> AllOutliers(validTracks, noTags)]
        called      == [attempted |-> TRUE, err |-> km.err, assign |-> km.assign]
    IN  IF Len(ts) = 0
        THEN [input |-> ts, panicked |-> FALSE, vocabulary |-> <<>>, kmeans |-> NoKMeans,
              clusters |-> <<>>, eras |-> <<>>, outliers |-> <<>>]
        ELSE IF TooFewTagged(Len(validTracks), numClusters) THEN none(<<>>, NoKMeans)
        ELSE IF Len(voc) = 0 THEN none(voc, NoKMeans)
        ELSE IF km.err
        THEN [none(voc, called) EXCEPT
                 !.outliers = OutliersOnPartitionError(validTracks, noTags)]
        ELSE LET cl == [ci \in 1..numClusters |-> ClusterTracks(validTracks, km.assign, ci)]
                 r  == MoodLoop(cl, 1, <<>>, <<>>, c.MinClusterSize)
             IN  [input |-> ts, panicked |-> r.panicked, vocabulary |-> voc,
                  kmeans |-> called, clusters |-> cl,
                  eras     |-> SortErasByStartDesc(r.eras),
                  outliers |-> r.outliers \o noTags]

----------------------------------------------------------------------------
(* The clustering calls as actions *)

GapThresholds     == (-1)..MaxTime
MinClusterSizes   == (-1)..MaxLen
NumClustersValues == {0, 1, 2}
MaxTagsValues     == {0, 1}

InitCluster ==
    /\ tracks \in TrackInputs
    /\ cfg = ZeroCfg
    /\ fn = "none"
    /\ pc = "input"
    /\ sorted = <<>>
    /\ clusters = <<>>
    /\ eras = <<>>
    /\ outliers = <<>>
    /\ vocabulary = <<>>
    /\ kmeans = NoKMeans
    /\ centroid = <<>>
    /\ topTags = <<>>

DetectErasCall ==
    /\ pc = "input"
    /\ \E g \in GapThresholds, m \in MinClusterSizes :
         LET c == [ZeroCfg EXCEPT !.GapThreshold = g, !.MinClusterSize = m]
             r == DetectEras(tracks, c)
         IN  /\ cfg' = c
             /\ tracks' = r.input
             /\ sorted' = r.sorted
             /\ clusters' = r.clusters
             /\ eras' = r.eras
             /\ outliers' = r.outliers
    /\ fn' = "DetectEras"
    /\ pc' = "returned"
    /\ UNCHANGED <<vocabulary, kmeans, centroid, topTags>>
    /\ UNCHANGED <<svars, fvars, kvars, yvars, rvars>>

DetectMoodErasCall ==
    /\ pc = "input"
    /\ \E k \in NumClustersValues, m \in MinClusterSizes, mt \in MaxTagsValues :
         LET c  == [ZeroCfg EXCEPT !.NumClusters = k, !.MinClusterSize = m, !.MaxTags = mt]
             nc == IF k <= 0 THEN DefaultNumClusters ELSE k
             vt == SelectSeq(tracks, LAMBDA t : Len(t.Tags) > 0)
         IN  \E voc \in buildTagVocabulary(vt, IF mt <= 0 THEN DefaultMaxTags ELSE mt),
                km \in KMeansOutcomes(Len(vt), nc) :
               LET r == DetectMoodEras(tracks, c, voc, km)
               IN  /\ cfg' = c
                   /\ tracks' = r.input
                   /\ vocabulary' = r.vocabulary
                   /\ kmeans' = r.kmeans
                   /\ clusters' = r.clusters
                   /\ eras' = r.eras
                   /\ outliers' = r.outliers
                   /\ pc' = IF r.panicked THEN "panicked" ELSE "returned"
    /\ fn' = "DetectMoodEras"
    /\ sorted' = <<>>
    /\ UNCHANGED <<centroid, topTags>>
    /\ UNCHANGED <<svars, fvars, kvars, yvars, rvars>>

\* the state of the components a specification does not exercise
IdleSplit == maxTracks = 0 /\ result = <<>>

IdleFetch ==
    /\ option = [given |-> FALSE, n |-> 0]
    /\ batch = <<>>
    /\ workCh = <<>>
    /\ results = <<>>
    /\ worker = <<>>
    /\ ctxDone = FALSE
    /\ fetched = <<>>
    /\ writes = <<>>
    /\ ret = [pc |-> "idle", results |-> <<>>, err |-> "nil"]

\* no GetTagsForTracks call was made
NoCall ==
    [made |-> FALSE, tracks |-> <<>>, at |-> 0, lookupFailed |-> FALSE,
     cached |-> <<>>, needsFetch |-> <<>>, live |-> <<>>, cancelled |-> FALSE,
     dbTags |-> <<>>, upsert |-> "none", result |-> <<>>, err |-> "nil"]

IdleCache == db = <<>> /\ now = 0 /\ call = NoCall

IdleSync == user = <<>> /\ sync = <<>>

IdleRequest == req = <<>>

Init == InitCluster /\ IdleSplit /\ IdleFetch /\ IdleCache /\ IdleSync /\ IdleRequest

Next == DetectErasCall \/ DetectMoodErasCall

\* the two clustering entry points applied to every bounded input
Spec == Init /\ [][Next]_vars

----------------------------------------------------------------------------
(* Properties of the clustering calls *)

EraTracks(es) == Concat([i \in 1..Len(es) |-> es[i].Tracks])

\* number of positions of s that hold x
Occurrences(s, x) == Cardinality({j \in 1..Len(s) : s[j] = x})

\* s holds every element of the input exactly once and nothing else
IsPartitionOfInput(s) ==
    /\ Len(s) = Len(tracks)
    /\ \A i \in 1..Len(tracks) : Occurrences(s, tracks[i]) = 1

\* C1: DetectEras returns eras and outliers in which every input track occurs
\* exactly once overall (in one era's Tracks or in outliers), so the era sizes
\* plus the outlier count add up to the input length.
C1_DetectErasConservation ==
    (fn = "DetectEras" /\ pc = "returned") =>
        /\ IsPartitionOfInput(EraTracks(eras) \o outliers)
        /\ SumLen([i \in 1..Len(eras) |-> eras[i].Tracks]) + Len(outliers) = Len(tracks)

\* an unsorted input with two equal timestamps that yields an era and an outlier
C1_Witness ==
    /\ fn = "DetectEras" /\ pc = "returned"
    /\ Len(eras) >= 1 /\ Len(outliers) >= 1
    /\ \E i, j \in 1..Len(tracks) : i < j /\ tracks[i].AddedAt > tracks[j].AddedAt
    /\ \E i, j \in 1..Len(tracks) : i # j /\ tracks[i].AddedAt = tracks[j].AddedAt

\* C2: on every return path DetectMoodEras returns eras and outliers in which
\* every input track occurs exactly once overall, k-means assigning each tagged
\* track to one cluster: era sizes plus outlier count equal the input length.
C2_DetectMoodErasConservation ==
    (fn = "DetectMoodEras" /\ pc = "returned") =>
        /\ IsPartitionOfInput(EraTracks(eras) \o outliers)
        /\ SumLen([i \in 1..Len(eras) |-> eras[i].Tracks]) + Len(outliers) = Len(tracks)

\* the too-few-tagged-tracks path with tagged and untagged tracks in the input
C2_TooFewTaggedReached ==
    /\ fn = "DetectMoodEras" /\ pc = "returned"
    /\ Len(clusters) = 0 /\ Len(eras) = 0
    /\ \E i, j \in 1..Len(tracks) : Len(tracks[i].Tags) > 0 /\ Len(tracks[j].Tags) = 0
    /\ Len(outliers) = Len(tracks)

\* the normal path: k-means ran and gave an era and a demoted cluster
C2_Witness ==
    /\ fn = "DetectMoodEras" /\ pc = "returned"
    /\ Len(clusters) >= 2 /\ Len(eras) >= 1 /\ Len(outliers) >= 1

\* index of the run that holds position i of the concatenated runs
RunIndex(cl, i) ==
    CHOOSE r \in 1..Len(cl) :
        LET before == SumLen(SubSeq(cl, 1, r - 1))
        IN  before < i /\ i <= before + Len(cl[r])

IsSortedByAddedAt(s) == \A i \in 1..(Len(s) - 1) : s[i].AddedAt <= s[i+1].AddedAt

\* C7: in DetectEras two tracks adjacent in timestamp order are in different
\* runs if and only if their gap is >= GapThreshold (a gap equal to the
\* threshold starts a new run, a gap one unit smaller does not).
C7_GapBoundary ==
    (fn = "DetectEras" /\ pc = "returned" /\ Len(tracks) > 0) =>
        /\ IsPartitionOfInput(sorted)
        /\ IsSortedByAddedAt(sorted)
        /\ Concat(clusters) = sorted
        /\ \A r \in 1..Len(clusters) : Len(clusters[r]) >= 1
        /\ \A i \in 1..(Len(sorted) - 1) :
              (RunIndex(clusters, i) # RunIndex(clusters, i + 1))
                  <=> (sorted[i+1].AddedAt - sorted[i].AddedAt >= cfg.GapThreshold)

\* a positive threshold, one gap equal to it (split) and one gap one unit smaller (no split)
C7_Witness ==
    /\ fn = "DetectEras" /\ pc = "returned" /\ cfg.GapThreshold >= 1
    /\ \E i, j \in 1..(Len(sorted) - 1) :
          /\ sorted[i+1].AddedAt - sorted[i].AddedAt = cfg.GapThreshold
          /\ RunIndex(clusters, i) # RunIndex(clusters, i + 1)
          /\ sorted[j+1].AddedAt - sorted[j].AddedAt = cfg.GapThreshold - 1
          /\ RunIndex(clusters, j) = RunIndex(clusters, j + 1)

\* C8: in DetectEras and DetectMoodEras a run or cluster with fewer than
\* MinClusterSize members has all its members in outliers and none in an era;
\* every returned era has at least MinClusterSize members and is a whole run/cluster.
C8_OutlierDemotion ==
    (fn # "none" /\ pc = "returned") =>
        /\ \A r \in 1..Len(clusters) :
              Len(clusters[r]) < cfg.MinClusterSize =>
                  /\ Range(clusters[r]) \subseteq Range(outliers)
                  /\ Range(clusters[r]) \cap Range(EraTracks(eras)) = {}
        /\ \A e \in 1..Len(eras) :
              /\ Len(eras[e].Tracks) >= cfg.MinClusterSize
              /\ \E r \in 1..Len(clusters) :
                    /\ Range(clusters[r]) = Range(eras[e].Tracks)
                    /\ Len(clusters[r]) = Len(eras[e].Tracks)

\* k-means gave a cluster below the minimum next to one that became an era
C8_Witness ==
    /\ fn = "DetectMoodEras" /\ pc = "returned" /\ cfg.MinClusterSize >= 2
    /\ Len(eras) >= 1
    /\ \E r \in 1..Len(clusters) :
          /\ Len(clusters[r]) >= 1
          /\ Len(clusters[r]) < cfg.MinClusterSize
          /\ Range(clusters[r]) \subseteq Range(outliers)

\* the same situation in DetectEras
C8_DetectErasReached ==
    /\ fn = "DetectEras" /\ pc = "returned" /\ cfg.MinClusterSize >= 2
    /\ Len(eras) >= 1
    /\ \E r \in 1..Len(clusters) : Len(clusters[r]) < cfg.MinClusterSize

IsStartDescending(es) == \A i \in 1..(Len(es) - 1) : es[i].StartDate >= es[i+1].StartDate

IsStartAscending(es) == \A i \in 1..(Len(es) - 1) : es[i].StartDate <= es[i+1].StartDate

\* C9 as stated: both DetectEras and DetectMoodEras return the eras sorted by
\* StartDate descending, most recent era first.
C9_ErasDescendingBoth ==
    (fn # "none" /\ pc = "returned") => IsStartDescending(eras)

\* C9 amended: DetectMoodEras returns the eras sorted by StartDate descending
\* (most recent first); DetectEras returns them in ascending StartDate order
\* (oldest run first).
C9_ErasOrder ==
    /\ (fn = "DetectMoodEras" /\ pc = "returned") => IsStartDescending(eras)
    /\ (fn = "DetectEras" /\ pc = "returned") => IsStartAscending(eras)

\* k-means listed the older cluster first and the newer era is returned first
C9_Witness ==
    /\ fn = "DetectMoodEras" /\ pc = "returned"
    /\ Len(eras) = 2 /\ Len(clusters) >= 2
    /\ eras[1].StartDate > eras[2].StartDate
    /\ \E a, b \in 1..Len(clusters) :
          /\ a < b
          /\ Range(clusters[a]) = Range(eras[2].Tracks)
          /\ Range(clusters[b]) = Range(eras[1].Tracks)

\* DetectEras returned two eras, the older one first
C9_DetectErasAscendingReached ==
    /\ fn = "DetectEras" /\ pc = "returned"
    /\ Len(eras) >= 2 /\ eras[1].StartDate < eras[2].StartDate

\* C10: in every era returned by DetectEras or DetectMoodEras the members are
\* in non-decreasing AddedAt order, StartDate is the first member's timestamp
\* (the minimum) and EndDate the last member's timestamp (the maximum).
C10_EraDates ==
    (fn # "none" /\ pc = "returned") =>
        \A e \in 1..Len(eras) :
            LET ts == eras[e].Tracks
            IN  /\ Len(ts) >= 1
                /\ IsSortedByAddedAt(ts)
                /\ eras[e].StartDate = ts[1].AddedAt
                /\ eras[e].EndDate = ts[Len(ts)].AddedAt
                /\ \A i \in 1..Len(ts) :
                      eras[e].StartDate <= ts[i].AddedAt /\ ts[i].AddedAt <= eras[e].EndDate

\* DetectEras made an era spanning two dates from an input that was not in timestamp order
C10_DetectErasReached ==
    /\ fn = "DetectEras" /\ pc = "returned"
    /\ ~IsSortedByAddedAt(tracks)
    /\ \E e \in 1..Len(eras) : eras[e].StartDate < eras[e].EndDate

\* a k-means cluster listed out of timestamp order became an era spanning two dates
C10_Witness ==
    /\ fn = "DetectMoodEras" /\ pc = "returned"
    /\ \E e \in 1..Len(eras), r \in 1..Len(clusters) :
          /\ Range(clusters[r]) = Range(eras[e].Tracks)
          /\ ~IsSortedByAddedAt(clusters[r])
          /\ eras[e].StartDate < eras[e].EndDate

C11_DetectMoodErasReached ==
    /\ fn = "DetectMoodEras" /\ pc = "returned"
    /\ ~IsSortedByAddedAt(tracks)
    /\ \E e \in 1..Len(eras) : eras[e].StartDate < eras[e].EndDate

MoodReturned == fn = "DetectMoodEras" /\ pc = "returned"

\* the tracks of the input that carry at least one tag
Tagged == SelectSeq(tracks, LAMBDA t : Len(t.Tags) > 0)

\* C18: every track without tags is among the outliers of every result of
\* DetectMoodEras; when fewer tracks carry a tag than NumClusters (a
\* non-positive NumClusters counting as 3), the call returns no eras and all
\* input tracks, tagged or not, as outliers, and k-means is not attempted.
C18_UntaggedAndTooFew ==
    MoodReturned =>
        /\ \A i \in 1..Len(tracks) :
              Len(tracks[i].Tags) = 0 => Occurrences(outliers, tracks[i]) = 1
        /\ Len(Tagged) < (IF cfg.NumClusters <= 0 THEN 3 ELSE cfg.NumClusters) =>
              /\ eras = <<>>
              /\ IsPartitionOfInput(outliers)
              /\ ~kmeans.attempted

\* NumClusters = 0 counts as 3: two tagged tracks and one untagged are all
\* outliers, and k-means was not called
C18_Witness ==
    /\ MoodReturned /\ cfg.NumClusters = 0
    /\ Len(tracks) = 3 /\ Len(Tagged) = 2
    /\ eras = <<>> /\ Len(outliers) = 3 /\ ~kmeans.attempted

\* k-means ran and gave an era, and the untagged track is an outlier
C18_UntaggedBesideEra ==
    /\ MoodReturned /\ kmeans.attempted /\ ~kmeans.err
    /\ Len(eras) >= 1
    /\ \E i \in 1..Len(tracks) : Len(tracks[i].Tags) = 0 /\ Occurrences(outliers, tracks[i]) = 1

\* C20: when km.Partition returns an error, DetectMoodEras returns (it does
\* not panic and has no error to report) no eras and an outlier list that
\* holds every tagged and every untagged input track exactly once.
C20_PartitionErrorIsSoft ==
    (fn = "DetectMoodEras" /\ kmeans.attempted /\ kmeans.err) =>
        /\ pc = "returned"
        /\ eras = <<>>
        /\ IsPartitionOfInput(outliers)

\* the partition failed on an input with tagged and untagged tracks
C20_Witness ==
    /\ fn = "DetectMoodEras" /\ kmeans.attempted /\ kmeans.err /\ pc = "returned"
    /\ Len(Tagged) >= 1 /\ Len(Tagged) < Len(tracks)
    /\ eras = <<>> /\ Len(outliers) = Len(tracks)

----------------------------------------------------------------------------
(* SplitLargeEras applied to bounded lists of eras *)

IdleCluster ==
    /\ tracks = <<>>
    /\ cfg = ZeroCfg
    /\ sorted = <<>>
    /\ clusters = <<>>
    /\ outliers = <<>>
    /\ vocabulary = <<>>
    /\ kmeans = NoKMeans
    /\ centroid = <<>>
    /\ topTags = <<>>

\* timestamp sequences of an era: non-empty and ascending, as DetectEras builds them
EraTimes ==
    UNION { { f \in [1..n -> Times] : \A i \in 1..(n - 1) : f[i] <= f[i+1] }
            : n \in 1..MaxEraLen }

\* a list of one or two eras; track IDs number the tracks through the list
EraListOf(tss) ==
    [e \in 1..Len(tss) |->
        LET offset == SumLen(SubSeq(tss, 1, e - 1))
            ts     == [i \in 1..Len(tss[e]) |->
                          [ID |-> offset + i, AddedAt |-> tss[e][i], Tags |-> <<>>]]
        IN  Era(ts, ts[1].AddedAt, ts[Len(ts)].AddedAt, 0, 0)]

EraListInputs ==
    { EraListOf(<<a>>) : a \in EraTimes } \cup { EraListOf(<<a, b>>) : a, b \in EraTimes }

MaxTracksValues == (-1)..MaxEraLen

InitSplit ==
    /\ eras \in EraListInputs
    /\ fn = "none"
    /\ pc = "input"
    /\ IdleCluster
    /\ IdleSplit
    /\ IdleFetch
    /\ IdleCache
    /\ IdleSync
    /\ IdleRequest

SplitLargeErasCall ==
    /\ pc = "input"
    /\ \E m \in MaxTracksValues :
         /\ maxTracks' = m
         /\ result' = SplitLargeEras(eras, m)
    /\ fn' = "SplitLargeEras"
    /\ pc' = "returned"
    /\ UNCHANGED <<tracks, cfg, sorted, clusters, eras, outliers, vocabulary, kmeans,
                   centroid, topTags, fvars, kvars, yvars, rvars>>

NextSplit == SplitLargeErasCall

SpecSplit == InitSplit /\ [][NextSplit]_vars

\* C6: for every list of eras and every maxTracks >= 1, every era in the list
\* returned by SplitLargeEras has at most maxTracks members.
C6_SplitBoundsEraSize ==
    (fn = "SplitLargeEras" /\ pc = "returned" /\ maxTracks >= 1) =>
        \A e \in 1..Len(result) : Len(result[e].Tracks) <= maxTracks

RECURSIVE SumSeq(_)
SumSeq(ns) == IF Len(ns) = 0 THEN 0 ELSE Head(ns) + SumSeq(Tail(ns))

\* the number of eras SplitLargeEras is to put in place of an era of k tracks
PiecesFor(k, m) ==
    IF m >= 1 /\ k > m THEN CHOOSE n \in 1..k : n * m >= k /\ (n - 1) * m < k ELSE 1

\* the eras of `result` that stand in place of eras[e]
PiecesOf(e) ==
    LET before == SumSeq([i \in 1..(e - 1) |-> PiecesFor(Len(eras[i].Tracks), maxTracks)])
    IN  SubSeq(result, before + 1, before + PiecesFor(Len(eras[e].Tracks), maxTracks))

SplitReturned == fn = "SplitLargeEras" /\ pc = "returned"

\* C15: with maxTracks >= 1, an era of k > maxTracks tracks is replaced by
\* exactly ceil(k / maxTracks) consecutive non-empty sub-eras with SplitIndex
\* 1, 2, ..., n in output order and SplitTotal n, each with StartDate and
\* EndDate the timestamps of its own first and last track; an era of
\* k <= maxTracks tracks keeps SplitIndex = 0 and SplitTotal = 0.
C15_SubEraNumbering ==
    (SplitReturned /\ maxTracks >= 1) =>
        /\ Len(result) = SumSeq([e \in 1..Len(eras) |->
                                    PiecesFor(Len(eras[e].Tracks), maxTracks)])
        /\ \A e \in 1..Len(eras) :
              LET k      == Len(eras[e].Tracks)
                  pieces == PiecesOf(e)
                  n      == Len(pieces)
              IN  IF k > maxTracks
                  THEN /\ n * maxTracks >= k /\ (n - 1) * maxTracks < k
                       /\ EraTracks(pieces) = eras[e].Tracks
                       /\ \A j \in 1..n :
                             /\ Len(pieces[j].Tracks) >= 1
                             /\ pieces[j].SplitIndex = j
                             /\ pieces[j].SplitTotal = n
                             /\ pieces[j].StartDate = pieces[j].Tracks[1].AddedAt
                             /\ pieces[j].EndDate
                                   = pieces[j].Tracks[Len(pieces[j].Tracks)].AddedAt
                  ELSE /\ n = 1
                       /\ pieces[1].SplitIndex = 0
                       /\ pieces[1].SplitTotal = 0

\* an era of 4 tracks is cut in 2 with maxTracks = 3, next to an era that is kept
C15_Witness ==
    /\ SplitReturned /\ maxTracks = 3 /\ Len(eras) = 2 /\ Len(result) = 3
    /\ Len(eras[1].Tracks) = 4 /\ Len(eras[2].Tracks) <= 3
    /\ result[1].SplitIndex = 1 /\ result[2].SplitIndex = 2
    /\ result[1].SplitTotal = 2 /\ result[2].SplitTotal = 2
    /\ result[3].SplitIndex = 0 /\ result[3].SplitTotal = 0

\* an era of 4 tracks is cut in 4 with maxTracks = 1
C15_FourPieces ==
    /\ SplitReturned /\ maxTracks = 1 /\ Len(eras) = 1 /\ Len(result) = 4
    /\ \A j \in 1..4 : result[j].SplitIndex = j /\ result[j].SplitTotal = 4

\* the cut positions of the split of eras[e]: the numbers of tracks in front of
\* each sub-era but the first
CutsOf(e) ==
    LET pieces == PiecesOf(e)
    IN  { SumSeq([i \in 1..j |-> Len(pieces[i].Tracks)]) : j \in 1..(Len(pieces) - 1) }

\* the gap between track g and track g + 1 of an era
GapAt(era, g) == era.Tracks[g + 1].AddedAt - era.Tracks[g].AddedAt

\* C16: when an oversized era is cut into n sub-eras, the n - 1 cut positions
\* are distinct positions of largest gaps of the era (every gap at a cut is
\* greater than or equal to every gap that is not at a cut), and the sub-eras
\* are the contiguous slices between the cuts, in the original order.
C16_CutsAtLargestGaps ==
    (SplitReturned /\ maxTracks >= 1) =>
        \A e \in 1..Len(eras) :
            LET k      == Len(eras[e].Tracks)
                pieces == PiecesOf(e)
                cuts   == CutsOf(e)
            IN  k > maxTracks =>
                  /\ Cardinality(cuts) = Len(pieces) - 1
                  /\ cuts \subseteq 1..(k - 1)
                  /\ \A c \in cuts, g \in (1..(k - 1)) \ cuts :
                        GapAt(eras[e], c) >= GapAt(eras[e], g)
                  /\ EraTracks(pieces) = eras[e].Tracks

\* an era of 4 tracks with gaps 0, 2, 0 is cut in 2 at the gap of 2
C16_Witness ==
    /\ SplitReturned /\ maxTracks = 3 /\ Len(eras) = 1 /\ Len(result) = 2
    /\ Len(eras[1].Tracks) = 4
    /\ GapAt(eras[1], 1) = 0 /\ GapAt(eras[1], 2) = 2 /\ GapAt(eras[1], 3) = 0
    /\ CutsOf(1) = {2}

\* an era of 3 tracks with gaps 0, 2 is cut at the second gap, not the first
C16_CutAtSecondGap ==
    /\ SplitReturned /\ maxTracks = 2 /\ Len(eras) = 1 /\ Len(eras[1].Tracks) = 3
    /\ GapAt(eras[1], 1) = 0 /\ GapAt(eras[1], 2) = 2
    /\ CutsOf(1) = {2}

\* C17: SplitLargeEras neither drops, duplicates nor reorders tracks: the
\* tracks of the output eras, concatenated in output order, are the tracks of
\* the input eras concatenated in input order; an era with at most maxTracks
\* tracks appears unchanged at its relative position; with maxTracks <= 0 the
\* output list equals the input list.
C17_SplitKeepsTracks ==
    SplitReturned =>
        /\ EraTracks(result) = EraTracks(eras)
        /\ maxTracks <= 0 => result = eras
        /\ maxTracks >= 1 =>
              \A e \in 1..Len(eras) :
                  Len(eras[e].Tracks) <= maxTracks => PiecesOf(e) = <<eras[e]>>

\* a small era comes after an era that was split in 2 and is found unchanged
\* in third place
C17_Witness ==
    /\ SplitReturned /\ maxTracks = 2 /\ Len(eras) = 2
    /\ Len(eras[1].Tracks) = 3 /\ Len(eras[2].Tracks) = 2
    /\ Len(result) = 3 /\ result[3] = eras[2]
    /\ result[1].SplitTotal = 2

\* maxTracks <= 0: an era of 4 tracks is handed back as it was
C17_NoLimit ==
    /\ SplitReturned /\ maxTracks <= 0 /\ Len(eras[1].Tracks) = 4 /\ result = eras

----------------------------------------------------------------------------
(* tags.Service.FetchTagsForTracks *)

\* ctx.Err() of a cancelled context
Canceled == "context canceled"

\* tags.Track of input position i; Artist and Name together are the fetch key
BatchTrack(i) == [ID |-> 100 + i, Artist |-> i, Name |-> i]

\* what TagFetcher.GetTags may return for (artist, track): tags (which name the
\* key they were fetched for), no tags, an error, or ctx.Err() once the context
\* is cancelled
GetTags(artist, name, done) ==
    { [tags |-> <<[Name |-> "rock", Count |-> name]>>, err |-> "nil"],
      [tags |-> <<>>, err |-> "nil"],
      [tags |-> <<>>, err |-> "API error"] }
    \cup (IF done THEN {[tags |-> <<>>, err |-> Canceled]} ELSE {})

\* TrackTags written when ctx.Done() is seen before the fetch
CancelledResult(track) ==
    [TrackID |-> track.ID, Tags |-> <<>>, Source |-> "none", Error |-> Canceled]

\* faulty variant: a failed fetch keeps the source of a successful one
FetchResultSourceTrack(track, tags, err) ==
    [TrackID |-> track.ID, Tags |-> IF err # "nil" THEN <<>> ELSE tags,
     Source |-> IF Len(tags) = 0 /\ err = "nil" THEN "none" ELSE "track", Error |-> err]

\* TrackTags built from what GetTags returned
FetchResult(track, tags, err) ==
    IF err # "nil"
    THEN [TrackID |-> track.ID, Tags |-> <<>>, Source |-> "none", Error |-> err]
    ELSE IF Len(tags) = 0
    THEN [TrackID |-> track.ID, Tags |-> tags, Source |-> "none", Error |-> err]
    ELSE [TrackID |-> track.ID, Tags |-> tags, Source |-> "track", Error |-> err]

\* faulty variant: every worker writes the slot of the first track
SlotOfFirst(work) == 1

\* results[work.index]
SlotOf(work) == work.index

\* faulty variant: a failed item makes the batch fail
BatchErrorAnyFailure(done, res) ==
    IF done THEN Canceled
    ELSE IF \E i \in 1..Len(res) : res[i].Error # "nil" THEN "API error" ELSE "nil"

\* the error returned after wg.Wait(): ctx.Err() if non-nil
BatchError(done, res) == IF done THEN Canceled ELSE "nil"

\* the zero value of TrackTags, as make([]TrackTags, n) fills the slice
ZeroTrackTags == [TrackID |-> 0, Tags |-> <<>>, Source |-> "", Error |-> "nil"]

NotFetched == [called |-> FALSE, tags |-> <<>>, err |-> "nil"]

\* const DefaultConcurrency
DefaultConcurrency == 5

\* NewService without an option
NoOption == [given |-> FALSE, n |-> 0]

\* NewService(fetcher) or NewService(fetcher, WithConcurrency(n))
ConcurrencyOptions == {NoOption} \cup { [given |-> TRUE, n |-> k] : k \in (-1)..MaxConcurrency }

\* faulty variant: WithConcurrency(n) always takes n, at least one worker
NewServiceAnyN(opt) == IF opt.given THEN (IF opt.n > 0 THEN opt.n + 1 ELSE 1) ELSE DefaultConcurrency

\* NewService: s.concurrency after the option was applied
NewService(opt) == IF opt.given /\ opt.n > 0 THEN opt.n ELSE DefaultConcurrency

\* the services and batch sizes explored: a pool of a given size with batches
\* up to MaxBatch, the default pool with batches up to MaxDefaultBatch
FetchInputs ==
    { in \in ConcurrencyOptions \X (0..MaxBatch) :
         in[2] <= (IF in[1].given /\ in[1].n > 0 THEN MaxBatch ELSE MaxDefaultBatch) }

InitFetch ==
    /\ \E in \in FetchInputs :
         /\ option = in[1]
         /\ batch = [i \in 1..in[2] |-> BatchTrack(i)]
         /\ fetched = [i \in 1..in[2] |-> NotFetched]
         /\ writes = <<>>
    /\ worker = [w \in 1..NewService(option) |-> [pc |-> "unborn", work |-> [index |-> 0]]]
    /\ ctxDone \in BOOLEAN
    /\ workCh = <<>>
    /\ results = <<>>
    /\ ret = [pc |-> "called", results |-> <<>>, err |-> "nil"]
    /\ fn = "none" /\ pc = "input" /\ eras = <<>>
    /\ IdleCluster
    /\ IdleSplit
    /\ IdleCache
    /\ IdleSync
    /\ IdleRequest

Workers == DOMAIN worker

\* lines 85-87: an empty batch returns at once
ReturnEmpty ==
    /\ ret.pc = "called"
    /\ Len(batch) = 0
    /\ ret' = [pc |-> "returned", results |-> <<>>, err |-> "nil"]
    /\ UNCHANGED <<option, batch, workCh, results, worker, ctxDone, fetched, writes, cvars, svars, kvars, yvars, rvars>>

\* lines 89-146: allocate results, fill and close the channel, start the workers
Setup ==
    /\ ret.pc = "called"
    /\ Len(batch) > 0
    /\ results' = [i \in 1..Len(batch) |-> ZeroTrackTags]
    /\ workCh' = [i \in 1..Len(batch) |-> [index |-> i]]
    /\ worker' = [w \in Workers |-> [pc |-> "range", work |-> [index |-> 0]]]
    /\ ret' = [ret EXCEPT !.pc = "waiting"]
    /\ UNCHANGED <<option, batch, ctxDone, fetched, writes, cvars, svars, kvars, yvars, rvars>>

\* faulty variant: a received item stays in the channel
AfterReceiveKept(ch) == ch

\* the channel after a receive: the item is removed
AfterReceive(ch) == Tail(ch)

\* `for work := range workCh`: take the next queued item
Receive(w) ==
    /\ worker[w].pc = "range"
    /\ Len(workCh) > 0
    /\ worker' = [worker EXCEPT ![w] = [pc |-> "select", work |-> Head(workCh)]]
    /\ workCh' = AfterReceive(workCh)
    /\ UNCHANGED <<option, batch, results, ctxDone, fetched, writes, ret, cvars, svars, kvars, yvars, rvars>>

\* faulty variant: the channel is left open
WorkChClosedNever == FALSE

\* close(workCh) ran before the first worker started
WorkChClosed == TRUE

\* the channel is closed and drained: the loop ends, wg.Done()
WorkerExit(w) ==
    /\ worker[w].pc = "range"
    /\ Len(workCh) = 0
    /\ WorkChClosed
    /\ worker' = [worker EXCEPT ![w].pc = "done"]
    /\ UNCHANGED <<option, batch, workCh, results, ctxDone, fetched, writes, ret, cvars, svars, kvars, yvars, rvars>>

\* faulty variant: the select always takes its default branch
DoneIsReadyNever(done) == FALSE

\* whether `case <-ctx.Done()` is ready when the select runs
DoneIsReady(done) == done

\* `case <-ctx.Done()`: record the cancellation for this item and continue
SkipCancelled(w) ==
    /\ worker[w].pc = "select"
    /\ DoneIsReady(ctxDone)
    /\ LET slot == SlotOf(worker[w].work)
       IN  /\ results' = [results EXCEPT ![slot] = CancelledResult(batch[worker[w].work.index])]
           /\ writes' = Append(writes, slot)
    /\ worker' = [worker EXCEPT ![w].pc = "range"]
    /\ UNCHANGED <<option, batch, workCh, ctxDone, fetched, ret, cvars, svars, kvars, yvars, rvars>>

\* `default:` the context is not done at the moment of the select
SelectDefault(w) ==
    /\ worker[w].pc = "select"
    /\ ~DoneIsReady(ctxDone)
    /\ worker' = [worker EXCEPT ![w].pc = "call"]
    /\ UNCHANGED <<option, batch, workCh, results, ctxDone, fetched, writes, ret, cvars, svars, kvars, yvars, rvars>>

\* line 123: s.fetcher.GetTags is called
BeginFetch(w) ==
    /\ worker[w].pc = "call"
    /\ worker' = [worker EXCEPT ![w].pc = "fetch"]
    /\ UNCHANGED <<option, batch, workCh, results, ctxDone, fetched, writes, ret, cvars, svars, kvars, yvars, rvars>>

\* GetTags returns; lines 124-143 build the result and store it
FetchReturn(w) ==
    /\ worker[w].pc = "fetch"
    /\ LET idx   == worker[w].work.index
           track == batch[idx]
           slot  == SlotOf(worker[w].work)
       IN  \E ans \in GetTags(track.Artist, track.Name, ctxDone) :
              /\ fetched' = [fetched EXCEPT ![idx] =
                                [called |-> TRUE, tags |-> ans.tags, err |-> ans.err]]
              /\ results' = [results EXCEPT ![slot] = FetchResult(track, ans.tags, ans.err)]
              /\ writes' = Append(writes, slot)
    /\ worker' = [worker EXCEPT ![w].pc = "range"]
    /\ UNCHANGED <<option, batch, workCh, ctxDone, ret, cvars, svars, kvars, yvars, rvars>>

\* wg.Wait() returns once every worker has called wg.Done()
Join ==
    /\ ret.pc = "waiting"
    /\ \A w \in Workers : worker[w].pc = "done"
    /\ ret' = [ret EXCEPT !.pc = "joined"]
    /\ UNCHANGED <<option, batch, workCh, results, worker, ctxDone, fetched, writes, cvars, svars, kvars, yvars, rvars>>

\* lines 150-155: return results with ctx.Err() or nil
Return ==
    /\ ret.pc = "joined"
    /\ ret' = [pc |-> "returned", results |-> results, err |-> BatchError(ctxDone, results)]
    /\ UNCHANGED <<option, batch, workCh, results, worker, ctxDone, fetched, writes, cvars, svars, kvars, yvars, rvars>>

\* the caller's context is cancelled, at any moment before the call returns
Cancel ==
    /\ ~ctxDone
    /\ ret.pc # "returned"
    /\ ctxDone' = TRUE
    /\ UNCHANGED <<option, batch, workCh, results, worker, fetched, writes, ret, cvars, svars, kvars, yvars, rvars>>

NextFetch ==
    \/ ReturnEmpty
    \/ Setup
    \/ \E w \in Workers : Receive(w)
    \/ \E w \in Workers : WorkerExit(w)
    \/ \E w \in Workers : SkipCancelled(w)
    \/ \E w \in Workers : SelectDefault(w)
    \/ \E w \in Workers : BeginFetch(w)
    \/ \E w \in Workers : FetchReturn(w)
    \/ Join
    \/ Return
    \/ Cancel

SpecFetch == InitFetch /\ [][NextFetch]_vars

\* the steps of worker goroutine w
WorkerStep(w) ==
    /\ w \in Workers
    /\ \/ Receive(w)
       \/ WorkerExit(w)
       \/ SkipCancelled(w)
       \/ SelectDefault(w)
       \/ BeginFetch(w)
       \/ FetchReturn(w)

\* the steps of the calling goroutine
CallerStep == ReturnEmpty \/ Setup \/ Join \/ Return

\* the largest pool a service can have
MaxPool == IF MaxConcurrency > DefaultConcurrency THEN MaxConcurrency ELSE DefaultConcurrency

\* the scheduler runs every goroutine that can take a step, and every GetTags
\* call returns; nothing obliges the caller's context to be cancelled
SpecFetchFair ==
    /\ InitFetch
    /\ [][NextFetch]_vars
    /\ WF_vars(CallerStep)
    /\ \A w \in 1..MaxPool : WF_vars(WorkerStep(w))

----------------------------------------------------------------------------
(* Properties of FetchTagsForTracks *)

Returned == ret.pc = "returned"

\* C3: for every batch and every interleaving and completion order of the
\* workers, the returned list has the length of the input, and entry i carries
\* the TrackID of input track i and the outcome of the fetch made for track i.
C3_OutputOrderIsInputOrder ==
    Returned =>
        /\ Len(ret.results) = Len(batch)
        /\ \A i \in 1..Len(batch) :
              /\ ret.results[i].TrackID = batch[i].ID
              /\ fetched[i].called =>
                    /\ [tags |-> fetched[i].tags, err |-> fetched[i].err]
                           \in GetTags(batch[i].Artist, batch[i].Name, TRUE)
                    /\ ret.results[i].Error = fetched[i].err
                    /\ fetched[i].err = "nil" => ret.results[i].Tags = fetched[i].tags
              /\ ~fetched[i].called =>
                    /\ ret.results[i].Error = Canceled
                    /\ ret.results[i].Source = "none"

\* two workers, every track fetched, and the last track's result was stored first
C3_Witness ==
    /\ Returned
    /\ Len(batch) >= 2 /\ Cardinality(Workers) >= 2
    /\ \A i \in 1..Len(batch) : fetched[i].called
    /\ writes[1] = Len(batch)
    /\ \E i \in 1..Len(batch) : ret.results[i].Source = "track"

\* C4: when the fetch of one item returns an error only that item's result is
\* affected (Source none, empty tag list, the error); every other item's result
\* is what its own fetch returned, and the batch returns a nil error as long as
\* the context was not cancelled.
C4_FailureIsolation ==
    Returned =>
        /\ \A i \in 1..Len(batch) :
              /\ (fetched[i].called /\ fetched[i].err # "nil") =>
                    ret.results[i] = [TrackID |-> batch[i].ID, Tags |-> <<>>,
                                      Source |-> "none", Error |-> fetched[i].err]
              /\ (fetched[i].called /\ fetched[i].err = "nil") =>
                    ret.results[i] = [TrackID |-> batch[i].ID, Tags |-> fetched[i].tags,
                                      Source |-> IF fetched[i].tags = <<>> THEN "none" ELSE "track",
                                      Error |-> "nil"]
        /\ ~ctxDone => ret.err = "nil"

\* no cancellation, one fetch failed, another returned tags, and the batch error is nil
C4_Witness ==
    /\ Returned /\ ~ctxDone /\ ret.err = "nil"
    /\ \E i, j \in 1..Len(batch) :
          /\ fetched[i].called /\ fetched[i].err = "API error"
          /\ ret.results[i].Source = "none"
          /\ fetched[j].called /\ fetched[j].err = "nil"
          /\ ret.results[j].Source = "track"

\* entry i of the returned list was written exactly once and is a completed
\* fetch outcome or the none-source entry that carries the cancellation error
EntryFilled(i) ==
    /\ Cardinality({k \in 1..Len(writes) : writes[k] = i}) = 1
    /\ ret.results[i].TrackID = batch[i].ID
    /\ \/ fetched[i].called /\ ret.results[i].Error = fetched[i].err
       \/ /\ ~fetched[i].called
          /\ ret.results[i] = [TrackID |-> batch[i].ID, Tags |-> <<>>,
                               Source |-> "none", Error |-> Canceled]

\* C5 as stated: the call returns a non-nil error if and only if the context is
\* cancelled by the time all workers have joined (for every batch), with one
\* filled entry per input item.
C5_ErrorIffCancelled ==
    Returned =>
        /\ (ret.err # "nil") <=> ctxDone
        /\ Len(ret.results) = Len(batch)
        /\ \A i \in 1..Len(batch) : EntryFilled(i)

\* C5 amended: for a non-empty batch the call returns a non-nil error (the
\* cancellation error) if and only if the context is cancelled when it is
\* checked after all workers have joined, and the result list then still has
\* one filled entry per input item; individual fetch failures alone never make
\* the batch error non-nil. An empty batch returns an empty list and a nil error
\* whether or not the context is cancelled.
C5_ErrorIffCancelledNonEmpty ==
    Returned =>
        /\ Len(batch) > 0 =>
              /\ (ret.err # "nil") <=> ctxDone
              /\ ret.err \in {"nil", Canceled}
        /\ Len(batch) = 0 => ret.err = "nil"
        /\ Len(ret.results) = Len(batch)
        /\ \A i \in 1..Len(batch) : EntryFilled(i)

\* cancelled mid-batch: one entry is a completed fetch, one a failed fetch, one
\* was skipped after the cancellation, and the call returns the cancellation error
C5_Witness ==
    /\ Returned /\ ctxDone /\ ret.err = Canceled
    /\ Len(ret.results) = Len(batch)
    /\ \E i, j, k \in 1..Len(batch) :
          /\ fetched[i].called /\ fetched[i].err = "nil" /\ ret.results[i].Source = "track"
          /\ fetched[j].called /\ fetched[j].err = "API error"
          /\ ~fetched[k].called /\ ret.results[k].Error = Canceled

\* the workers whose GetTags call has begun and has not returned
InFlight == { w \in Workers : worker[w].pc = "fetch" }

\* C23: at every moment at most N calls to the tag fetcher are in flight, N
\* being the value given to WithConcurrency when it is positive and 5 when it
\* is zero, negative or not given.
C23_AtMostNInFlight ==
    LET N == IF option.given /\ option.n > 0 THEN option.n ELSE 5
    IN  /\ Cardinality(Workers) = N
        /\ Cardinality(InFlight) <= N

\* WithConcurrency(2), a batch of 3: two fetches are in flight and the third
\* track is still queued
C23_Witness ==
    /\ option = [given |-> TRUE, n |-> 2]
    /\ Len(batch) = 3
    /\ Cardinality(InFlight) = 2
    /\ Len(workCh) = 1

\* WithConcurrency(0): the pool has the default 5 workers, one of them fetching
C23_DefaultPool ==
    /\ option = [given |-> TRUE, n |-> 0]
    /\ Cardinality(Workers) = 5
    /\ Cardinality(InFlight) = 1

\* the step of worker w in which its GetTags call begins
FetchBegins(w) == worker[w].pc # "fetch" /\ worker'[w].pc = "fetch"

\* a step of worker w that holds a work item and has not yet run the select
\* while the context is already cancelled: the item is recorded as cancelled
\* and the fetcher is not called
RecordsCancellation(w) ==
    LET idx == worker[w].work.index
    IN  /\ worker'[w].pc = "range"
        /\ results' = [results EXCEPT ![idx] =
                          [TrackID |-> batch[idx].ID, Tags |-> <<>>,
                           Source |-> "none", Error |-> Canceled]]
        /\ fetched' = fetched

\* C26 as stated: once the cancellation signal has fired no worker starts a
\* fetch (every fetch call began before the cancellation or is not made), and
\* every item taken from the queue after the cancellation is recorded with
\* Source none, an empty tag list and the cancellation error without a call
\* to the fetcher.
C26_NoFetchBeginsAfterCancel ==
    [][\A w \in Workers :
          /\ FetchBegins(w) => ~ctxDone
          /\ (worker[w].pc = "select" /\ ctxDone /\ worker'[w] # worker[w])
                => RecordsCancellation(w)]_vars

\* C26, amended: the cancellation signal is checked once per item, before the
\* fetch. A fetch call is made only for an item whose check found the signal
\* not fired, and an item whose check comes after the cancellation (every item
\* taken from the queue after it) is recorded with Source none, an empty tag
\* list and the cancellation error without a call to the fetcher.
C26_CheckedBeforeEachFetch ==
    [][\A w \in Workers :
          /\ FetchBegins(w) => worker[w].pc = "call"
          /\ (worker[w].pc = "select" /\ worker'[w].pc = "call") => ~ctxDone
          /\ (worker[w].pc = "select" /\ ctxDone /\ worker'[w] # worker[w])
                => RecordsCancellation(w)]_vars

\* the context is cancelled while one worker stands between its check and its
\* GetTags call; another worker has recorded its item as cancelled
C26_Witness ==
    /\ ctxDone
    /\ \E w \in Workers : worker[w].pc = "call"
    /\ \E i \in 1..Len(batch) :
          /\ ~fetched[i].called
          /\ i \in Range(writes)
          /\ results[i] = [TrackID |-> batch[i].ID, Tags |-> <<>>,
                           Source |-> "none", Error |-> Canceled]

\* a GetTags call is open that was checked before the cancellation, and the
\* context is cancelled
C26_FetchOpenAfterCancel ==
    /\ ctxDone
    /\ \E w \in Workers : worker[w].pc = "fetch"

\* the workers that hold a work item whose slot they have not yet written
Holding == { w \in Workers : worker[w].pc \in {"select", "call", "fetch"} }

\* C28: each work item is taken from the queue by exactly one worker: every
\* input track is fetched at most once per call (exactly once when the
\* context is never cancelled) and each result slot is written exactly once,
\* by the worker that took the item, so no two workers write the same slot.
C28_EachItemTakenOnce ==
    /\ \A v, w \in Holding : v # w => worker[v].work.index # worker[w].work.index
    /\ (ret.pc # "called") =>
          \A i \in 1..Len(batch) :
             LET queued  == Occurrences([k \in 1..Len(workCh) |-> workCh[k].index], i)
                 held    == Cardinality({ w \in Holding : worker[w].work.index = i })
                 written == Occurrences(writes, i)
             IN  /\ queued + held + written = 1
                 /\ fetched[i].called => written = 1
    /\ Returned =>
          /\ \A i \in 1..Len(batch) : Occurrences(writes, i) = 1
          /\ Len(writes) = Len(batch)
          /\ ~ctxDone => \A i \in 1..Len(batch) : fetched[i].called

\* no cancellation, 3 tracks and 2 workers: 3 fetch calls were made and 3
\* slots written, one each
C28_Witness ==
    /\ Returned /\ ~ctxDone
    /\ Len(batch) = 3 /\ Cardinality(Workers) = 2
    /\ Cardinality({ i \in 1..Len(batch) : fetched[i].called }) = 3
    /\ Len(writes) = 3

\* the state in which the call has returned and left nothing behind
ReturnedClean ==
    /\ Returned
    /\ workCh = <<>>
    /\ Len(batch) > 0 => \A w \in Workers : worker[w].pc = "done"
    /\ Len(batch) = 0 =>
          /\ ret.results = <<>> /\ ret.err = "nil"
          /\ \A w \in Workers : worker[w].pc = "unborn"
          /\ writes = <<>>

\* C29: provided every fetch call returns, FetchTagsForTracks returns for
\* every batch size and every concurrency, with or without cancellation: the
\* closed queue is drained and every worker has exited, the surplus ones too;
\* an empty batch returns an empty list without a worker and without a fetch.
C29_EventuallyReturns == <>[]ReturnedClean

\* the default pool of 5 on a batch of 1, cancelled on the way: the call
\* returned and the 4 surplus workers are done
C29_Witness ==
    /\ ReturnedClean
    /\ Len(batch) = 1 /\ Cardinality(Workers) = 5
    /\ ctxDone /\ fetched[1].called

\* an empty batch has returned: no worker was started
C29_EmptyBatch ==
    /\ ReturnedClean /\ Len(batch) = 0 /\ ret.results = <<>>

----------------------------------------------------------------------------
(* tags.CachedTagFetcher.GetTagsForTracks over the track_tags table *)

CacheTTL == 30
\* days (30 * 24 * time.Hour)

\* the clock advances in steps of the TTL, so that an entry is met at the
\* ages 0, TTL (exactly on the threshold, not stale) and 2 * TTL (stale)
ClockStep == CacheTTL
MaxClock == MaxTicks * ClockStep

CacheTrackIDs == {1, 2}

\* the track lists handed to GetTagsForTracks (the same ID may occur twice)
CacheBatches ==
    UNION { [1..n -> CacheTrackIDs] : n \in 0..Cardinality(CacheTrackIDs) }

\* what client.GetTags may answer for a track: a tag list (possibly empty) or an error
LiveTagLists ==
    { <<>>, <<[Name |-> "rock", Count |-> 2]>>, <<[Name |-> "pop", Count |-> 1]>> }

LiveOutcomes ==
    { [tags |-> l, err |-> "nil"] : l \in LiveTagLists }
        \cup { [tags |-> <<>>, err |-> "API error"] }

\* ORDER BY tag_count DESC over the rows of one track: every order the
\* database may deliver (rows of equal count in any order)
RowOrders(rows) ==
    LET n == Cardinality(rows)
    IN  { s \in [1..n -> rows] :
            /\ \A i, j \in 1..n : i # j => s[i] # s[j]
            /\ \A i \in 1..(n - 1) : s[i].TagCount >= s[i+1].TagCount }

\* TagRepository.GetForTracks: the maps it may return; a track without rows
\* has no entry
GetForTracks(table, trackIDs) ==
    LET found == { id \in Range(trackIDs) : table[id] # {} }
    IN  { f \in [found -> UNION { RowOrders(table[id]) : id \in found }] :
            \A id \in found : f[id] \in RowOrders(table[id]) }

\* faulty variant: an entry exactly CacheTTL old is already stale
IsStaleAtThreshold(cachedTags, at) == cachedTags[1].FetchedAt <= at - CacheTTL

\* cachedTags[0].FetchedAt.Before(staleThreshold)
IsStale(cachedTags, at) == cachedTags[1].FetchedAt < at - CacheTTL

\* the test that sends a track ID to needsFetch
IsMissOrStale(cached, id, at) ==
    \/ id \notin DOMAIN cached
    \/ Len(cached[id]) = 0
    \/ IsStale(cached[id], at)

NeedsFetch(trackIDs, cached, at) ==
    SelectSeq(trackIDs, LAMBDA id : IsMissOrStale(cached, id, at))

dbTagsToLastfmTags(dbTags) ==
    [i \in 1..Len(dbTags) |-> [Name |-> dbTags[i].TagName, Count |-> dbTags[i].TagCount]]

\* `result` before the live fetch: the valid cache hits
CacheHits(trackIDs, cached, at) ==
    [id \in { x \in Range(trackIDs) : ~IsMissOrStale(cached, x, at) }
        |-> dbTagsToLastfmTags(cached[id])]

\* the loop of fetchAndPersist over the tracks it got answers for:
\* live[i] is the answer of client.GetTags for needsFetch[i]
FetchedResult(live) ==
    LET ok     == { i \in 1..Len(live) : live[i].err = "nil" }
        last(id) == CHOOSE i \in ok : live[i].id = id /\ \A j \in ok : live[j].id = id => j <= i
    IN  [id \in { live[i].id : i \in ok } |-> live[last(id)].tags]

RECURSIVE DbTags(_, _, _)
DbTags(live, i, at) ==
    IF i > Len(live) THEN <<>>
    ELSE (IF live[i].err = "nil"
          THEN [j \in 1..Len(live[i].tags) |->
                   [TrackID |-> live[i].id, TagName |-> live[i].tags[j].Name,
                    TagCount |-> live[i].tags[j].Count, FetchedAt |-> at]]
          ELSE <<>>)
         \o DbTags(live, i + 1, at)

\* INSERT ... ON CONFLICT DO UPDATE refuses a batch that names one
\* (track_id, tag_name) twice
HasDuplicateKey(dbTags) ==
    \E i, j \in 1..Len(dbTags) :
        i # j /\ dbTags[i].TrackID = dbTags[j].TrackID /\ dbTags[i].TagName = dbTags[j].TagName

\* TagRepository.UpsertBatch when it succeeds: rows are replaced per
\* (track_id, tag_name); other rows of the track stay as they are
UpsertBatch(table, dbTags) ==
    [id \in DOMAIN table |->
        LET new == { [TagName |-> dbTags[i].TagName, TagCount |-> dbTags[i].TagCount,
                      FetchedAt |-> dbTags[i].FetchedAt]
                     : i \in { k \in 1..Len(dbTags) : dbTags[k].TrackID = id } }
        IN  { r \in table[id] : \A n \in new : n.TagName # r.TagName } \cup new]

\* the merge of the fetched lists into the cache hits
MergeFetched(hits, fetchedTags) ==
    [id \in DOMAIN hits \cup DOMAIN fetchedTags |->
        IF id \in DOMAIN fetchedTags THEN fetchedTags[id] ELSE hits[id]]

\* faulty variant: the error of fetchAndPersist is handed to the caller
CallErrorPropagated(lookupFailed, fetchErr) ==
    IF lookupFailed THEN "getting cached tags" ELSE fetchErr

\* the error GetTagsForTracks returns: only a failed lookup is reported
CallError(lookupFailed, fetchErr) ==
    IF lookupFailed THEN "getting cached tags" ELSE "nil"

\* GetTagsForTracks at time `at` over `table`: `cached` is what the lookup
\* returned, answers[i] what client.GetTags answered for needsFetch[i];
\* the context is found cancelled before item Len(answers) + 1 if there is one
GetTagsForTracks(table, at, trackIDs, lookupFailed, cached, answers, upsertFails) ==
    LET base == [NoCall EXCEPT !.made = TRUE, !.tracks = trackIDs, !.at = at]
    IN  IF Len(trackIDs) = 0 THEN [db |-> table, call |-> base]
        ELSE IF lookupFailed
        THEN [db |-> table,
              call |-> [base EXCEPT !.lookupFailed = TRUE, !.err = CallError(TRUE, "nil")]]
        ELSE LET needsFetch == NeedsFetch(trackIDs, cached, at)
                 hits       == CacheHits(trackIDs, cached, at)
                 live       == [i \in 1..Len(answers) |->
                                   [id |-> needsFetch[i], tags |-> answers[i].tags,
                                    err |-> answers[i].err]]
                 cancelled  == Len(answers) < Len(needsFetch)
                 dbTags     == DbTags(live, 1, at)
                 upsert     == IF cancelled \/ Len(dbTags) = 0 THEN "none"
                               ELSE IF upsertFails \/ HasDuplicateKey(dbTags) THEN "failed"
                               ELSE "ok"
                 fetchErr   == IF cancelled THEN Canceled
                               ELSE IF upsert = "failed" THEN "persisting tags"
                               ELSE "nil"
             IN  [db   |-> IF upsert = "ok" THEN UpsertBatch(table, dbTags) ELSE table,
                  call |-> [base EXCEPT !.cached = cached, !.needsFetch = needsFetch,
                                        !.live = live, !.cancelled = cancelled,
                                        !.dbTags = dbTags, !.upsert = upsert,
                                        !.result = MergeFetched(hits, FetchedResult(live)),
                                        !.err = CallError(FALSE, fetchErr)]]

InitCache ==
    /\ db = [id \in CacheTrackIDs |-> {}]
    /\ now = 0
    /\ call = NoCall
    /\ fn = "none" /\ pc = "input" /\ eras = <<>>
    /\ IdleCluster
    /\ IdleSplit
    /\ IdleFetch
    /\ IdleSync
    /\ IdleRequest

\* every way a call may go: the lookup fails, or it returns `cached` and the
\* fetch loop gets the answers of the first n tracks of needsFetch before it
\* ends or finds the context cancelled, and the upsert succeeds or fails
CallRuns(table, at, trackIDs) ==
    {[lookupFailed |-> TRUE, cached |-> <<>>, answers |-> <<>>, upsertFails |-> FALSE]}
    \cup UNION { UNION { { [lookupFailed |-> FALSE, cached |-> cached, answers |-> answers,
                            upsertFails |-> u]
                          : answers \in [1..n -> LiveOutcomes],
                            u \in IF n = Len(NeedsFetch(trackIDs, cached, at))
                                  THEN BOOLEAN ELSE {FALSE} }
                        : n \in 0..Len(NeedsFetch(trackIDs, cached, at)) }
                : cached \in GetForTracks(table, trackIDs) }

GetTagsForTracksCall ==
    /\ \E trackIDs \in CacheBatches :
         \E run \in CallRuns(db, now, trackIDs) :
            LET r == GetTagsForTracks(db, now, trackIDs, run.lookupFailed, run.cached,
                                      run.answers, run.upsertFails)
            IN  /\ db' = r.db
                /\ call' = r.call
    /\ UNCHANGED <<now, cvars, svars, fvars, yvars, rvars>>

\* time passes between calls
Tick ==
    /\ now < MaxClock
    /\ now' = now + ClockStep
    /\ UNCHANGED <<db, call, cvars, svars, fvars, yvars, rvars>>

NextCache == GetTagsForTracksCall \/ Tick

SpecCache == InitCache /\ [][NextCache]_vars

----------------------------------------------------------------------------
(* Properties of GetTagsForTracks *)

\* the live fetches of call c for track id
LiveFetchesOf(c, id) == { i \in 1..Len(c.live) : c.live[i].id = id }

\* call c went through the lookup and the item loop
LookedUp(c) == c.made /\ ~c.lookupFailed /\ Len(c.tracks) > 0

\* C12: whatever tag list the first live fetch of an item returned (an empty
\* list included), the next GetTagsForTracks call that names the item within
\* CacheTTL of the first makes no live fetch for it: it answers from the cache.
\* The first call is taken at its best: not cancelled, its upsert did not fail.
C12_SecondCallFromCache ==
    [][ \A id \in CacheTrackIDs :
          ( /\ now' = now
            /\ LookedUp(call) /\ ~call.cancelled /\ call.upsert # "failed"
            /\ \E i \in LiveFetchesOf(call, id) : call.live[i].err = "nil"
            /\ LookedUp(call')
            /\ id \in Range(call'.tracks)
            /\ call'.at - call.at <= CacheTTL )
          => LiveFetchesOf(call', id) = {} ]_vars

\* the first live fetch of a track returned the empty list, nothing was
\* written for it, and the track has no row in the table
C12_EmptyListNotCached ==
    /\ LookedUp(call) /\ ~call.cancelled /\ call.upsert = "none"
    /\ \E id \in CacheTrackIDs :
          /\ \E i \in LiveFetchesOf(call, id) : call.live[i].err = "nil" /\ call.live[i].tags = <<>>
          /\ db[id] = {}

\* a track was fetched and written just now, and the first row the lookup
\* will return for it is still an old one that the upsert did not touch
C12_StaleRowSurvives ==
    /\ LookedUp(call) /\ call.upsert = "ok" /\ call.at = now
    /\ \E id \in CacheTrackIDs :
          /\ \E i \in LiveFetchesOf(call, id) : call.live[i].err = "nil"
          /\ db[id] # {}
          /\ \A rows \in RowOrders(db[id]) : IsStale(rows, now)

\* C13: in a GetTagsForTracks call an item is queued for a live fetch if and
\* only if the lookup returned no rows for it or the timestamp of its cached
\* entry (that of the first row returned) is older than now minus 30 days; an
\* entry whose timestamp is within the TTL is returned as cached, and no live
\* fetch is made for that item.
C13_QueuedIffMissOrStale ==
    LookedUp(call) =>
        \A id \in Range(call.tracks) :
            LET miss   == id \notin DOMAIN call.cached
                stale  == ~miss /\ call.cached[id][1].FetchedAt < call.at - CacheTTL
                queued == id \in Range(call.needsFetch)
            IN  /\ queued <=> (miss \/ stale)
                /\ queued =>
                      Cardinality({ i \in 1..Len(call.needsFetch) : call.needsFetch[i] = id })
                         = Cardinality({ i \in 1..Len(call.tracks) : call.tracks[i] = id })
                /\ ~queued =>
                      /\ LiveFetchesOf(call, id) = {}
                      /\ id \in DOMAIN call.result
                      /\ Len(call.result[id]) = Len(call.cached[id])
                      /\ \A j \in 1..Len(call.cached[id]) :
                            /\ call.result[id][j].Name = call.cached[id][j].TagName
                            /\ call.result[id][j].Count = call.cached[id][j].TagCount

\* one call meets an entry that is exactly 30 days old, which it returns from
\* the cache, and a track without rows, which it fetches
C13_Witness ==
    /\ LookedUp(call)
    /\ \E id, other \in Range(call.tracks) :
          /\ id \in DOMAIN call.cached
          /\ call.cached[id][1].FetchedAt = call.at - CacheTTL
          /\ id \notin Range(call.needsFetch)
          /\ call.result[id] = <<[Name |-> "rock", Count |-> 2]>>
          /\ other \notin DOMAIN call.cached
          /\ LiveFetchesOf(call, other) # {}

\* a stale entry (60 days old) is queued and fetched
C13_StaleQueued ==
    /\ LookedUp(call)
    /\ \E id \in Range(call.tracks) :
          /\ id \in DOMAIN call.cached
          /\ call.cached[id][1].FetchedAt < call.at - CacheTTL
          /\ LiveFetchesOf(call, id) # {}

\* C14: once the lookup has succeeded, GetTagsForTracks returns a nil error
\* whatever the live fetches and the upsert do. An item whose live fetches all
\* failed (or were not reached) is absent from the result map, also when stale
\* rows were cached for it; every fresh cache hit and every successfully
\* fetched tag list is in the map, also when the upsert failed.
C14_FailuresAreSoft ==
    LookedUp(call) =>
        /\ call.err = "nil"
        /\ \A id \in Range(call.tracks) :
              LET ok == { i \in LiveFetchesOf(call, id) : call.live[i].err = "nil" }
              IN  /\ (id \in Range(call.needsFetch) /\ ok = {}) => id \notin DOMAIN call.result
                  /\ ok # {} =>
                        /\ id \in DOMAIN call.result
                        /\ \E i \in ok : call.result[id] = call.live[i].tags
                  /\ id \notin Range(call.needsFetch) =>
                        /\ id \in DOMAIN call.result
                        /\ call.result[id] = dbTagsToLastfmTags(call.cached[id])
        /\ DOMAIN call.result \subseteq Range(call.tracks)

\* the live fetch of a track with stale rows failed, the other track was
\* fetched, the upsert failed: the call returns the other track's tags only
C14_Witness ==
    /\ LookedUp(call) /\ call.upsert = "failed" /\ call.err = "nil"
    /\ \E id, other \in Range(call.tracks) :
          /\ id \in DOMAIN call.cached
          /\ \E i \in LiveFetchesOf(call, id) : call.live[i].err = "API error"
          /\ id \notin DOMAIN call.result
          /\ \E i \in LiveFetchesOf(call, other) : call.live[i].err = "nil"
          /\ DOMAIN call.result = {other}
          /\ call.result[other] # <<>>

\* the upsert failed and the map holds a fresh cache hit next to a fetched list
C14_UpsertFailedHitKept ==
    /\ LookedUp(call) /\ call.upsert = "failed" /\ call.err = "nil"
    /\ \E id, other \in Range(call.tracks) :
          /\ id \notin Range(call.needsFetch)
          /\ other \in Range(call.needsFetch)
          /\ DOMAIN call.result = {id, other}

\* C27: when the context is cancelled while GetTagsForTracks is live-fetching
\* its misses, the call returns the cancellation error together with the
\* partial map (fresh cache hits plus the items fetched before the
\* cancellation).
C27_CancellationErrorReturned ==
    (LookedUp(call) /\ call.cancelled) =>
        /\ call.err = Canceled
        /\ call.result = MergeFetched(CacheHits(call.tracks, call.cached, call.at),
                                      FetchedResult(call.live))

\* the fetch loop found the context cancelled after one item was fetched and
\* with another still to fetch; the call returned the partial map and no error
C27_CancelledReturnsNil ==
    /\ LookedUp(call) /\ call.cancelled
    /\ Len(call.live) = 1 /\ call.live[1].err = "nil" /\ call.live[1].tags # <<>>
    /\ DOMAIN call.result = {call.live[1].id}
    /\ call.err = "nil"

----------------------------------------------------------------------------
(* buildTagVocabulary applied to bounded lists of tagged tracks *)

\* tags as Last.fm spells and weighs them; artist tags come without a count (0)
VocabTags ==
    { [Name |-> n, Count |-> c] : n \in {"Rock", "rock", "ROCK", "Pop"}, c \in {0, 70, 80, 100} }

\* the tag lists of a track that has tags: one or two tags
VocabTagLists ==
    { <<a>> : a \in VocabTags } \cup { <<a, b>> : a, b \in VocabTags }

\* validTracks: one or two tracks, each with at least one tag
VocabInputs ==
    { <<[ID |-> 1, AddedAt |-> 0, Tags |-> a]>> : a \in VocabTagLists }
    \cup { <<[ID |-> 1, AddedAt |-> 0, Tags |-> a], [ID |-> 2, AddedAt |-> 0, Tags |-> b]>>
           : a, b \in VocabTagLists }

\* cfg.MaxTags as DetectMoodEras passes it on: positive
VocabMaxTags == {1, 2, 3}

InitVocab ==
    /\ tracks \in VocabInputs
    /\ cfg = ZeroCfg
    /\ fn = "none"
    /\ pc = "input"
    /\ sorted = <<>> /\ clusters = <<>> /\ eras = <<>> /\ outliers = <<>>
    /\ vocabulary = <<>>
    /\ kmeans = NoKMeans
    /\ centroid = <<>>
    /\ topTags = <<>>
    /\ IdleSplit
    /\ IdleFetch
    /\ IdleCache
    /\ IdleSync
    /\ IdleRequest

buildTagVocabularyCall ==
    /\ pc = "input"
    /\ \E mt \in VocabMaxTags :
         /\ cfg' = [ZeroCfg EXCEPT !.MaxTags = mt]
         /\ vocabulary' \in buildTagVocabulary(tracks, mt)
    /\ fn' = "buildTagVocabulary"
    /\ pc' = "returned"
    /\ UNCHANGED <<tracks, sorted, clusters, eras, outliers, kmeans, centroid, topTags, svars, fvars, kvars, yvars, rvars>>

NextVocab == buildTagVocabularyCall

SpecVocab == InitVocab /\ [][NextVocab]_vars

VocabReturned == fn = "buildTagVocabulary" /\ pc = "returned"

\* the name under which the spellings of a tag are merged
MergedName(name) == IF name \in {"Rock", "rock", "ROCK"} THEN "rock" ELSE "pop"

\* all tags of all input tracks
AllTags == Concat([i \in 1..Len(tracks) |-> tracks[i].Tags])

MergedNames == { MergedName(AllTags[j].Name) : j \in 1..Len(AllTags) }

\* the summed weight of a merged name over all tracks
Weight(merged) ==
    SumSeq([j \in 1..Len(AllTags) |->
              IF MergedName(AllTags[j].Name) = merged THEN AllTags[j].Count ELSE 0])

\* C19: buildTagVocabulary merges tag names case-insensitively (lower-cased),
\* sums each name's weight over all tracks, and returns min(maxTags, number of
\* distinct lower-cased names) names, each once, in non-increasing order of
\* summed weight, every returned name weighing at least as much as every name
\* left out.
C19_VocabularyTopByWeight ==
    VocabReturned =>
        /\ Len(vocabulary) = Min(cfg.MaxTags, Cardinality(MergedNames))
        /\ \A i \in 1..Len(vocabulary) : vocabulary[i] \in MergedNames
        /\ \A i, j \in 1..Len(vocabulary) : i # j => vocabulary[i] # vocabulary[j]
        /\ \A i \in 1..(Len(vocabulary) - 1) :
              Weight(vocabulary[i]) >= Weight(vocabulary[i + 1])
        /\ \A left \in MergedNames \ Range(vocabulary) :
              \A i \in 1..Len(vocabulary) : Weight(vocabulary[i]) >= Weight(left)

\* Rock:100 and rock:80 on one track, ROCK:70 and Pop:100 on the other: "rock"
\* weighs 250 and is the one name kept with maxTags = 1
C19_Witness ==
    /\ VocabReturned /\ cfg.MaxTags = 1
    /\ Len(tracks) = 2
    /\ tracks[1].Tags = <<[Name |-> "Rock", Count |-> 100], [Name |-> "rock", Count |-> 80]>>
    /\ tracks[2].Tags = <<[Name |-> "ROCK", Count |-> 70], [Name |-> "Pop", Count |-> 100]>>
    /\ Weight("rock") = 250
    /\ vocabulary = <<"rock">>

\* both names are returned, the heavier one first although it comes later in the input
C19_HeavierFirst ==
    /\ VocabReturned /\ cfg.MaxTags = 3
    /\ tracks[1].Tags = <<[Name |-> "Rock", Count |-> 70]>>
    /\ Len(tracks) = 2 /\ tracks[2].Tags = <<[Name |-> "Pop", Count |-> 100]>>
    /\ vocabulary = <<"pop", "rock">>

----------------------------------------------------------------------------
(* DetectMoodEras on tracks whose tags all weigh 0 *)

\* tag lists without weight, as artist.getTopTags delivers them (Count is
\* absent there and decodes to 0), or no tags at all
ZeroWeightTagChoices ==
    { <<>>,
      <<[Name |-> "Rock", Count |-> 0]>>,
      <<[Name |-> "Rock", Count |-> 0], [Name |-> "Pop", Count |-> 0]>> }

ZeroWeightInputs ==
    UNION { { [i \in 1..n |-> [ID |-> i, AddedAt |-> f[i][1], Tags |-> f[i][2]]]
              : f \in [1..n -> {0, 1} \X ZeroWeightTagChoices] } : n \in 0..MaxLen }

InitZeroWeight ==
    /\ tracks \in ZeroWeightInputs
    /\ cfg = ZeroCfg
    /\ fn = "none"
    /\ pc = "input"
    /\ sorted = <<>> /\ clusters = <<>> /\ eras = <<>> /\ outliers = <<>>
    /\ vocabulary = <<>>
    /\ kmeans = NoKMeans
    /\ centroid = <<>>
    /\ topTags = <<>>
    /\ IdleSplit
    /\ IdleFetch
    /\ IdleCache
    /\ IdleSync
    /\ IdleRequest

NextZeroWeight == DetectMoodErasCall

SpecZeroWeight == InitZeroWeight /\ [][NextZeroWeight]_vars

\* every tag of every tagged input track has weight 0, and there is a tagged track
AllWeightsZero ==
    /\ Len(Tagged) >= 1
    /\ \A i \in 1..Len(tracks) : \A j \in 1..Len(tracks[i].Tags) : tracks[i].Tags[j].Count = 0

\* C21: when every tag of every tagged track has weight 0, DetectMoodEras
\* takes the vocabulary to be empty and returns no eras and every input track
\* as an outlier.
C21_ZeroWeightsGiveNoEras ==
    (MoodReturned /\ AllWeightsZero) =>
        /\ vocabulary = <<>>
        /\ ~kmeans.attempted
        /\ eras = <<>>
        /\ IsPartitionOfInput(outliers)

\* what the code does instead: the names of weightless tags make up the
\* vocabulary, k-means runs and an era comes back
C21_EraFromZeroWeights ==
    /\ MoodReturned /\ AllWeightsZero
    /\ Len(vocabulary) >= 1 /\ kmeans.attempted /\ ~kmeans.err
    /\ Len(eras) >= 1

----------------------------------------------------------------------------
(* extractTopTags applied to bounded centroids and vocabularies *)

\* sort.Slice(weights, weight descending) (insertion sort below 12 elements)
InsertByWeightDesc(s, x) ==
    LET stop == CHOOSE j \in 0..Len(s) :
                   /\ (j = 0 \/ ~(x.weight > s[j].weight))
                   /\ \A k \in (j+1)..Len(s) : x.weight > s[k].weight
    IN  SubSeq(s, 1, stop) \o <<x>> \o SubSeq(s, stop + 1, Len(s))

RECURSIVE SortByWeightDesc(_)
SortByWeightDesc(s) ==
    IF Len(s) <= 1 THEN s
    ELSE InsertByWeightDesc(SortByWeightDesc(SubSeq(s, 1, Len(s) - 1)), s[Len(s)])

\* faulty variant: entries of weight zero are taken too
HasWeightOrZero(w) == w >= 0

\* weights[i].weight > 0
HasWeight(w) == w > 0

\* the loop that takes the first n entries with weight
RECURSIVE TakeTop(_, _, _, _)
TakeTop(weights, i, n, res) ==
    IF ~(i <= Len(weights) /\ Len(res) < n) THEN res
    ELSE TakeTop(weights, i + 1, n,
                 IF HasWeight(weights[i].weight) THEN Append(res, weights[i].name) ELSE res)

extractTopTags(cen, voc, n) ==
    IF Len(cen) = 0 \/ Len(voc) = 0 THEN <<>>
    ELSE LET weights == [i \in 1..Len(voc) |->
                            [name |-> voc[i], weight |-> IF i <= Len(cen) THEN cen[i] ELSE 0]]
         IN  TakeTop(SortByWeightDesc(weights), 1, n, <<>>)

\* the n that DetectMoodEras passes
TopTagsN == 3

\* vocabularies as buildTagVocabulary returns them: distinct names
VocabNames == <<"rock", "pop", "jazz", "indie", "folk">>

TopTagVocabularies == { SubSeq(VocabNames, 1, l) : l \in 0..Len(VocabNames) }

\* centroid coordinates, in halves: 0, 0.5, 1
CentroidWeights == {0, 1, 2}

InitTopTags ==
    /\ vocabulary \in TopTagVocabularies
    /\ \E l \in 0..Len(vocabulary) : centroid \in [1..l -> CentroidWeights]
    /\ topTags = <<>>
    /\ tracks = <<>>
    /\ cfg = ZeroCfg
    /\ fn = "none"
    /\ pc = "input"
    /\ sorted = <<>> /\ clusters = <<>> /\ eras = <<>> /\ outliers = <<>>
    /\ kmeans = NoKMeans
    /\ IdleSplit
    /\ IdleFetch
    /\ IdleCache
    /\ IdleSync
    /\ IdleRequest

extractTopTagsCall ==
    /\ pc = "input"
    /\ topTags' = extractTopTags(centroid, vocabulary, TopTagsN)
    /\ fn' = "extractTopTags"
    /\ pc' = "returned"
    /\ UNCHANGED <<tracks, cfg, sorted, clusters, eras, outliers, vocabulary, kmeans, centroid,
                   svars, fvars, kvars, yvars, rvars>>

NextTopTags == extractTopTagsCall

SpecTopTags == InitTopTags /\ [][NextTopTags]_vars

TopTagsReturned == fn = "extractTopTags" /\ pc = "returned"

\* the centroid weight of the vocabulary entry at position i
CentroidWeightAt(i) == IF i <= Len(centroid) THEN centroid[i] ELSE 0

\* the positions of the vocabulary at which a returned name stands
PositionOf(name) == CHOOSE i \in 1..Len(vocabulary) : vocabulary[i] = name

\* C22: extractTopTags returns at most 3 distinct vocabulary entries, each
\* with a centroid weight strictly above zero, in non-increasing order of
\* weight; no entry left out weighs more than a returned one, and fewer than
\* 3 are returned exactly when fewer than 3 entries have positive weight.
C22_TopTagsByWeight ==
    TopTagsReturned =>
        LET positive == { i \in 1..Len(vocabulary) : CentroidWeightAt(i) > 0 }
            taken    == { PositionOf(topTags[j]) : j \in 1..Len(topTags) }
        IN  /\ Len(topTags) <= 3
            /\ \A j \in 1..Len(topTags) : topTags[j] \in Range(vocabulary)
            /\ Cardinality(taken) = Len(topTags)
            /\ taken \subseteq positive
            /\ \A j \in 1..(Len(topTags) - 1) :
                  CentroidWeightAt(PositionOf(topTags[j]))
                     >= CentroidWeightAt(PositionOf(topTags[j + 1]))
            /\ \A i \in (1..Len(vocabulary)) \ taken, t \in taken :
                  CentroidWeightAt(i) <= CentroidWeightAt(t)
            /\ (Len(topTags) < 3) <=> (Cardinality(positive) < 3)

\* five entries weighing 0.5, 1, 0, 1, 0.5: the two of weight 1 come first,
\* then one of weight 0.5; the other and the zero are left out
C22_Witness ==
    /\ TopTagsReturned
    /\ centroid = <<1, 2, 0, 2, 1>>
    /\ Len(vocabulary) = 5
    /\ topTags = <<"pop", "indie", "rock">>

\* only two entries have weight: two names are returned
C22_FewerThanThree ==
    /\ TopTagsReturned
    /\ centroid = <<0, 1, 0, 2>>
    /\ Len(vocabulary) = 4
    /\ topTags = <<"indie", "pop">>

----------------------------------------------------------------------------
(* sync.Service.SyncLikedSongs for one user, calls running concurrently *)

\* a nil *time.Time
NilTime == -1

\* DefaultSyncCooldown, 1 hour, in half hours
DefaultSyncCooldown == 2

ErrSyncTooRecent == "sync attempted too recently"

\* CanSync after a successful Users().Get: no LastSyncAt, or Now is not before
\* LastSyncAt + cooldown
CanSync(lastSyncAt, at, cooldown) ==
    IF lastSyncAt = NilTime THEN TRUE
    ELSE ~(at < lastSyncAt + cooldown)

\* a SyncLikedSongs call that has just been made
NewSyncCall(force) ==
    [pc |-> "called", force |-> force, checkedAt |-> NilTime, syncedAt |-> NilTime, err |-> "nil"]

InitSync ==
    /\ user \in { [LastSyncAt |-> t] : t \in {NilTime, 0} }
    /\ sync = <<>>
    /\ now = 0
    /\ db = <<>> /\ call = NoCall
    /\ fn = "none" /\ pc = "input" /\ eras = <<>>
    /\ IdleCluster
    /\ IdleSplit
    /\ IdleFetch
    /\ IdleRequest

\* a handler calls SyncLikedSongs(ctx, client, userID, force)
SyncLikedSongsCall ==
    /\ Len(sync) < MaxCalls
    /\ \E force \in BOOLEAN : sync' = Append(sync, NewSyncCall(force))
    /\ UNCHANGED <<user, now, db, call, cvars, svars, fvars, rvars>>

\* lines 258-267: unless forced, CanSync reads the user row and compares the
\* clock; a failed read and a sync inside the cooldown end the call
CheckCooldown(i) ==
    /\ sync[i].pc = "called"
    /\ \/ /\ sync[i].force
          /\ sync' = [sync EXCEPT ![i].pc = "fetch"]
       \/ /\ ~sync[i].force
          /\ \/ sync' = [sync EXCEPT ![i].pc = "returned", ![i].err = "checking sync eligibility"]
             \/ /\ CanSync(user.LastSyncAt, now, DefaultSyncCooldown)
                /\ sync' = [sync EXCEPT ![i].pc = "fetch", ![i].checkedAt = now]
             \/ /\ ~CanSync(user.LastSyncAt, now, DefaultSyncCooldown)
                /\ sync' = [sync EXCEPT ![i].pc = "returned", ![i].checkedAt = now,
                                        ![i].err = ErrSyncTooRecent]
    /\ UNCHANGED <<user, now, db, call, cvars, svars, fvars, rvars>>

\* lines 270-318: the liked songs are fetched from Spotify and stored; either
\* may fail and end the call
FetchAndStore(i) ==
    /\ sync[i].pc = "fetch"
    /\ \/ sync' = [sync EXCEPT ![i].pc = "update"]
       \/ sync' = [sync EXCEPT ![i].pc = "returned", ![i].err = "fetching liked songs"]
       \/ sync' = [sync EXCEPT ![i].pc = "returned", ![i].err = "upserting tracks"]
    /\ UNCHANGED <<user, now, db, call, cvars, svars, fvars, rvars>>

\* lines 277-280, 320-323: UpdateLastSync(ctx, userID, time.Now())
UpdateLastSync(i) ==
    /\ sync[i].pc = "update"
    /\ \/ /\ user' = [user EXCEPT !.LastSyncAt = now]
          /\ sync' = [sync EXCEPT ![i].pc = "returned", ![i].syncedAt = now]
       \/ /\ sync' = [sync EXCEPT ![i].pc = "returned", ![i].err = "updating last sync"]
          /\ UNCHANGED user
    /\ UNCHANGED <<now, db, call, cvars, svars, fvars, rvars>>

\* half an hour passes
SyncTick ==
    /\ now < MaxTicks
    /\ now' = now + 1
    /\ UNCHANGED <<user, sync, db, call, cvars, svars, fvars, rvars>>

NextSync ==
    \/ SyncLikedSongsCall
    \/ \E i \in 1..MaxCalls : i <= Len(sync) /\ CheckCooldown(i)
    \/ \E i \in 1..MaxCalls : i <= Len(sync) /\ FetchAndStore(i)
    \/ \E i \in 1..MaxCalls : i <= Len(sync) /\ UpdateLastSync(i)
    \/ SyncTick

SpecSync == InitSync /\ [][NextSync]_vars

\* call i was not forced, went through and recorded its sync
SyncedUnforced(i) ==
    /\ ~sync[i].force /\ sync[i].pc = "returned"
    /\ sync[i].err = "nil" /\ sync[i].syncedAt # NilTime

\* C25: for any interleaving of SyncLikedSongs calls made with force=false,
\* two syncs that both succeed are at least one cooldown apart, and a call
\* inside the cooldown returns ErrSyncTooRecent and leaves the stored
\* last-sync time alone.
C25_UnforcedSyncsOneCooldownApart ==
    (\A i \in 1..Len(sync) : ~sync[i].force) =>
        /\ \A i, j \in 1..Len(sync) :
              (i # j /\ SyncedUnforced(i) /\ SyncedUnforced(j)) =>
                 \/ sync[i].syncedAt - sync[j].syncedAt >= DefaultSyncCooldown
                 \/ sync[j].syncedAt - sync[i].syncedAt >= DefaultSyncCooldown
        /\ \A i \in 1..Len(sync) :
              sync[i].err = ErrSyncTooRecent => sync[i].syncedAt = NilTime

\* two unforced calls for a user who never synced passed the check at the same
\* time and both recorded a sync, half an hour apart
C25_TwoSyncsInsideCooldown ==
    /\ Len(sync) = 2
    /\ SyncedUnforced(1) /\ SyncedUnforced(2)
    /\ sync[1].checkedAt = 0 /\ sync[2].checkedAt = 0
    /\ sync[1].syncedAt = 0 /\ sync[2].syncedAt = 1

\* run one after the other, the second unforced call is refused
C25_RefusedInsideCooldown ==
    /\ Len(sync) = 2
    /\ SyncedUnforced(1) /\ sync[1].syncedAt = 0
    /\ sync[2].checkedAt = 1 /\ sync[2].err = ErrSyncTooRecent
    /\ user.LastSyncAt = 0

----------------------------------------------------------------------------
(* lastfm.Client.doRequest: one call, its context cancelled at any moment *)

ErrRateLimited == "rate limit exceeded"

ErrInvalidAPIKey == "invalid API key"

\* the backoff delays, in seconds
delays == <<1, 2, 4>>

\* the requests the client makes
RequestMethods == {"track.getTopTags", "artist.getTopTags"}

\* no body: a nil []byte
NoBody == <<>>

\* the response bodies of a request that the API answered without an error
Bodies(method) == { <<method, "toptags">>, <<method, "no toptags">> }

\* what doSingleRequest may return: a body, or one of its errors; the
\* transport fails with the context's error once the context is cancelled
SingleRequestOutcomes(method, done) ==
    { [body |-> b, err |-> "nil"] : b \in Bodies(method) }
    \cup { [body |-> NoBody, err |-> e] : e \in {ErrRateLimited, ErrInvalidAPIKey, "executing request"} }
    \cup (IF done THEN {[body |-> NoBody, err |-> "executing request: context canceled"]} ELSE {})

\* faulty variant: every error is retried
IsRetryableAlways(err) == TRUE

\* errors.Is(err, ErrRateLimited)
IsRetryable(err) == err = ErrRateLimited

InitRequest ==
    /\ \E method \in RequestMethods, done \in BOOLEAN :
          req = [method |-> method, pc |-> "attempt", attempt |-> 0, done |-> done,
                 outcomes |-> <<>>, waits |-> <<>>, lastErr |-> "nil",
                 body |-> NoBody, err |-> "nil"]
    /\ user = <<>> /\ sync = <<>>
    /\ fn = "none" /\ pc = "input" /\ eras = <<>>
    /\ IdleCluster
    /\ IdleSplit
    /\ IdleFetch
    /\ IdleCache

\* lines 183-198: one HTTP attempt and what the loop does with its outcome
Attempt ==
    /\ req.pc = "attempt"
    /\ \E out \in SingleRequestOutcomes(req.method, req.done) :
          LET tried == [req EXCEPT !.outcomes = Append(@, out.err)]
          IN  IF out.err = "nil"
              THEN req' = [tried EXCEPT !.pc = "returned", !.body = out.body]
              ELSE IF IsRetryable(out.err)
              THEN IF req.attempt + 1 <= Len(delays)
                   THEN req' = [tried EXCEPT !.pc = "wait", !.lastErr = out.err,
                                             !.attempt = @ + 1]
                   ELSE req' = [tried EXCEPT !.pc = "returned", !.lastErr = out.err,
                                             !.attempt = @ + 1, !.err = out.err]
              ELSE req' = [tried EXCEPT !.pc = "returned", !.err = out.err]
    /\ UNCHANGED <<cvars, svars, fvars, kvars, yvars>>

\* line 179: `case <-time.After(delays[attempt-1])`, the context not being done
TimerFires ==
    /\ req.pc = "wait"
    /\ ~req.done
    /\ req' = [req EXCEPT !.pc = "attempt", !.waits = Append(@, delays[req.attempt])]
    /\ UNCHANGED <<cvars, svars, fvars, kvars, yvars>>

\* lines 177-178: `case <-ctx.Done()`: return nil, ctx.Err()
WaitCancelled ==
    /\ req.pc = "wait"
    /\ req.done
    /\ req' = [req EXCEPT !.pc = "returned", !.err = Canceled]
    /\ UNCHANGED <<cvars, svars, fvars, kvars, yvars>>

\* the caller's context is cancelled, at any moment before the call returns
CancelRequest ==
    /\ req.pc # "returned"
    /\ ~req.done
    /\ req' = [req EXCEPT !.done = TRUE]
    /\ UNCHANGED <<cvars, svars, fvars, kvars, yvars>>

NextRequest == Attempt \/ TimerFires \/ WaitCancelled \/ CancelRequest

SpecRequest == InitRequest /\ [][NextRequest]_vars

\* what holds of a doRequest call at every moment: at most 4 attempts, the
\* waits 1s, 2s, 4s in that order, each attempt but the last rate limited,
\* and the returned value decided by the last attempt or by the cancelled wait
RequestInOrder(r) ==
    LET made == Len(r.outcomes)
    IN  /\ made <= 4
        /\ Len(r.waits) <= 3
        /\ r.waits = SubSeq(<<1, 2, 4>>, 1, Len(r.waits))
        /\ \A k \in 1..(made - 1) : r.outcomes[k] = ErrRateLimited
        /\ r.pc = "attempt" => Len(r.waits) = made
        /\ r.pc = "wait" => (Len(r.waits) = made - 1 /\ r.outcomes[made] = ErrRateLimited)
        /\ r.pc = "returned" =>
              /\ made >= 1 /\ Len(r.waits) = made - 1
              /\ r.outcomes[made] = "nil" => (r.err = "nil" /\ r.body \in Bodies(r.method))
              /\ r.outcomes[made] # "nil" => r.body = NoBody
              /\ r.outcomes[made] \notin {"nil", ErrRateLimited} => r.err = r.outcomes[made]
              /\ r.outcomes[made] = ErrRateLimited =>
                    \/ made = 4 /\ r.err = ErrRateLimited
                    \/ made < 4 /\ r.done /\ r.err = Canceled

\* C30: doRequest makes at most 4 HTTP attempts per call, after waits of 1s,
\* 2s and 4s in that order; it retries only after an attempt that returned
\* ErrRateLimited, returns the first successful body or the first other error
\* at once, returns ErrRateLimited after the fourth rate-limited attempt, and
\* returns the context error without another attempt when the context is
\* cancelled during a backoff wait.
C30_RetriesOnlyOnRateLimit ==
    [][ /\ RequestInOrder(req')
        /\ (req.pc = "wait" /\ req.done) =>
              /\ req'.pc = "returned" /\ req'.err = Canceled
              /\ req'.outcomes = req.outcomes ]_vars

\* four rate-limited attempts after waits of 1s, 2s and 4s: ErrRateLimited
C30_Witness ==
    /\ req.pc = "returned"
    /\ Len(req.outcomes) = 4 /\ req.waits = <<1, 2, 4>>
    /\ req.err = ErrRateLimited

\* cancelled during the second wait: the context error, after 2 attempts
C30_CancelledInWait ==
    /\ req.pc = "returned"
    /\ Len(req.outcomes) = 2 /\ req.waits = <<1>>
    /\ req.err = Canceled

\* the third attempt succeeds: its body is returned
C30_ThirdAttemptSucceeds ==
    /\ req.pc = "returned"
    /\ Len(req.outcomes) = 3 /\ req.outcomes[3] = "nil"
    /\ req.body = <<req.method, "toptags">> /\ req.err = "nil"

====
